---- MODULE Spec2Model ----
(***************************************************************************)
(* A model of code-analyzer/scripts/analyze.py (DeepCodeAnalyzer): file    *)
(* discovery, the per-file analysis loop of run, the Python analysis of    *)
(* functions and their complexity, and the report.  Path strings are       *)
(* sequences of one-character strings, so that the substring test of       *)
(* should_include and Path.suffix are computed as Python computes them.    *)
(***************************************************************************)
EXTENDS Integers, Sequences, FiniteSets, TLC

VARIABLES
    root_path,          \* self.root_path
    root_is_file,       \* self.root_path.is_file()
    fs,                 \* what the walk of root_path yields, in walk order
    exclude_patterns,   \* self.exclude_patterns
    files,              \* self.files
    functions,          \* self.functions   (dict, in insertion order)
    data_models,        \* self.data_models (dict, in insertion order)
    business_rules,     \* self.business_rules
    external_deps,      \* self.external_deps
    report,             \* self.report
    warned,             \* the files run printed an "Error reading" warning for
    idx,                \* position of the loop of run over self.files
    pc,                 \* position of run
    calls,              \* how many times run was called on this analyzer
    returned,           \* what the calls of run returned, over all analyzers of the tree
    modules,            \* cycle detector: the module identities, in graph order
    dependencies,       \* cycle detector: module identity -> its import tokens
    visited,            \* cycle detector: the nodes a search has entered
    rec_stack,          \* cycle detector: the nodes on the active recursion stack
    dfs_path,           \* cycle detector: the path being explored
    todo,               \* cycle detector: per node of path, the imports not yet followed
    found,              \* cycle detector: the cycles recorded, in order
    cycles,             \* cycle detector: the cycles reported
    dpc,                \* cycle detector: position
    reviewer,           \* the JavaCodeReviewer: its tree, issues, stats, position
    docs_analyzer,      \* the DocsAnalyzer: its tree, doc_files, report, position
    checker,            \* the ConsistencyChecker: its tree, issues, position
    improver,           \* the DocsImprover: its tree, recommendations, position
    ddd,                \* the DDDAnalyzer: its report, position
    review_report,      \* what generate_report of the JavaCodeReviewer wrote
    architect,          \* optimize-solution.py: what each run of main read and wrote
    quality             \* the DocsAnalyzer of docs-improver.py: inventory, quality report

runVars == <<root_path, root_is_file, fs, exclude_patterns, files, functions,
             data_models, business_rules, external_deps, report, warned, idx, pc, calls, returned>>

dfsVars == <<modules, dependencies, visited, rec_stack, dfs_path, todo, found, cycles, dpc>>

toolVars == <<reviewer, docs_analyzer, checker, improver, ddd>>

scriptVars == <<review_report, architect, quality>>

vars == <<runVars, dfsVars, toolVars, scriptVars>>

(***************************************************************************)
(* Bounds of the model.                                                    *)
(***************************************************************************)
MaxFiles == 2
MaxAstNodes == 3
MaxDecisions == 51
MaxModules == 5
MaxRuns == 2
MaxClasses == 2
MaxPathFuncs == 3

(***************************************************************************)
(* Strings.                                                                *)
(***************************************************************************)
Range(s) == { s[i] : i \in 1..Len(s) }

SeqsUpTo(S, n) == UNION { [1..k -> S] : k \in 0..n }

\* Python's `p in s` on strings
IsSubstring(p, s) ==
    \E k \in 0..(Len(s) - Len(p)) : \A j \in 1..Len(p) : s[k + j] = p[j]

\* the largest i with s[i] = c, or 0 (str.rfind, counted from 1)
LastIndexOf(c, s) ==
    IF \E i \in 1..Len(s) : s[i] = c
    THEN CHOOSE i \in 1..Len(s) : s[i] = c /\ \A j \in (i + 1)..Len(s) : s[j] # c
    ELSE 0

\* Path.name: the final component
PathName(p) == SubSeq(p, LastIndexOf("/", p) + 1, Len(p))

\* Path.suffix: from the last dot of the name, unless the dot is the first or
\* the last character of the name
PathSuffix(p) ==
    LET n == PathName(p)
        i == LastIndexOf(".", n)
    IN  IF 1 < i /\ i < Len(n) THEN SubSeq(n, i, Len(n)) ELSE <<>>

(***************************************************************************)
(* File discovery.                                                         *)
(***************************************************************************)
DefaultExcludePatterns ==
    << <<"n", "o", "d", "e", "_", "m", "o", "d", "u", "l", "e", "s">>, <<"v", "e", "n", "d", "o", "r">>, <<".", "g", "i", "t">>, <<"_", "_", "p", "y", "c", "a", "c", "h", "e", "_", "_">>, <<".", "v", "e", "n", "v">>, <<"v", "e", "n", "v">>,
       <<"d", "i", "s", "t">>, <<"b", "u", "i", "l", "d">>, <<"t", "a", "r", "g", "e", "t">>, <<".", "D", "S", "_", "S", "t", "o", "r", "e">> >>

SupportedSuffixes ==
    { <<".", "p", "y">>, <<".", "j", "s">>, <<".", "t", "s">>, <<".", "j", "a", "v", "a">>, <<".", "g", "o">>, <<".", "r", "s">>, <<".", "s", "q", "l">> }

\* __init__: exclude_patterns or the default list (an empty list is falsy)
InitExcludePatterns(given) ==
    IF given = <<>> THEN DefaultExcludePatterns ELSE given

\* should_include with the patterns matched against the file name only
should_include_name_only(patterns, file_path) ==
    IF \E k \in 1..Len(patterns) : IsSubstring(patterns[k], PathName(file_path))
    THEN FALSE
    ELSE PathSuffix(file_path) \in SupportedSuffixes

should_include(patterns, file_path) ==
    IF \E k \in 1..Len(patterns) : IsSubstring(patterns[k], file_path)
    THEN FALSE
    ELSE PathSuffix(file_path) \in SupportedSuffixes

\* discover_files taking a single-file root without asking should_include
discover_files_root_unfiltered(patterns, root, isfile, walk) ==
    IF isfile
    THEN <<root>>
    ELSE LET Keep(e) == e.is_file /\ should_include(patterns, e.path)
             kept == SelectSeq(walk, Keep)
         IN  [k \in 1..Len(kept) |-> kept[k].path]

\* the paths discover_files puts into self.files, in walk order
discover_files(patterns, root, isfile, walk) ==
    IF isfile
    THEN IF should_include(patterns, root) THEN <<root>> ELSE <<>>
    ELSE LET Keep(e) == e.is_file /\ should_include(patterns, e.path)
             kept == SelectSeq(walk, Keep)
         IN  [k \in 1..Len(kept) |-> kept[k].path]

\* the file system entry of a path
Entry(p) == CHOOSE e \in Range(fs) : e.path = p

\* Path.relative_to(root_path) as a string; the root itself is "."
RelPath(root, p) ==
    IF p = root THEN <<".">> ELSE SubSeq(p, Len(root) + 2, Len(p))

\* root / rel
Join(root, rel) == root \o <<"/">> \o rel

(***************************************************************************)
(* File contents.  A content is [ok, lines, nodes]: for a Python file,     *)
(* ok says whether ast.parse accepts it and nodes is its syntax tree, the  *)
(* nodes in ast.walk (breadth-first) order, each with the index of its     *)
(* parent (0: the Module); for a JavaScript, TypeScript or Rust file nodes *)
(* are the places its patterns match, in text order.  A node is            *)
(* [kind, parent, name, text]: name is the identifier a definition, call   *)
(* or import carries, text the source text an `if` or `match` spans.       *)
(***************************************************************************)
Node(kind, parent, name, text) ==
    [kind |-> kind, parent |-> parent, name |-> name, text |-> text]

Indices(s) == [i \in 1..Len(s) |-> i]

\* str.lower on the letters the model uses
LowerChar(c) ==
    CASE c = "A" -> "a" [] c = "B" -> "b" [] c = "C" -> "c" [] c = "D" -> "d"
      [] c = "E" -> "e" [] c = "F" -> "f" [] c = "G" -> "g" [] c = "H" -> "h"
      [] c = "I" -> "i" [] c = "J" -> "j" [] c = "K" -> "k" [] c = "L" -> "l"
      [] c = "M" -> "m" [] c = "N" -> "n" [] c = "O" -> "o" [] c = "P" -> "p"
      [] c = "Q" -> "q" [] c = "R" -> "r" [] c = "S" -> "s" [] c = "T" -> "t"
      [] c = "U" -> "u" [] c = "V" -> "v" [] c = "W" -> "w" [] c = "X" -> "x"
      [] c = "Y" -> "y" [] c = "Z" -> "z" [] OTHER -> c

Lower(s) == [i \in 1..Len(s) |-> LowerChar(s[i])]

\* any(kw in s for kw in kws)
AnyIn(kws, s) == \E kw \in kws : IsSubstring(kw, s)

\* s.split(sep)[0]
SplitFirst(s, sep) ==
    LET Hits == { k \in 0..(Len(s) - Len(sep)) :
                    \A j \in 1..Len(sep) : s[k + j] = sep[j] }
    IN  IF Hits = {} THEN s
        ELSE SubSeq(s, 1, CHOOSE k \in Hits : \A h \in Hits : k <= h)

\* d[key] = val on a dict kept in insertion order: an existing key keeps its place
DictPut(d, val) ==
    IF \E i \in 1..Len(d) : d[i].key = val.key
    THEN [i \in 1..Len(d) |-> IF d[i].key = val.key THEN val ELSE d[i]]
    ELSE Append(d, val)

RECURSIVE InSubtree(_, _, _)
\* node k is node a or below it
InSubtree(nodes, a, k) ==
    IF k = a THEN TRUE
    ELSE IF k = 0 THEN FALSE
    ELSE InSubtree(nodes, a, nodes[k].parent)

\* ast.walk(nodes[a]): node a and everything below it
ast_walk(nodes, a) ==
    LET Below(i) == InSubtree(nodes, a, i)
    IN  SelectSeq(Indices(nodes), Below)

(***************************************************************************)
(* Python analysis.  The analysis state st is                              *)
(* [functions, data_models, business_rules, external_deps].                *)
(***************************************************************************)
DecisionKinds == {"If", "For", "While", "ExceptHandler"}

FunctionKinds == {"FunctionDef", "AsyncFunctionDef"}

PyEntryPoints == { <<"m", "a", "i", "n">>, <<"r", "u", "n">>, <<"e", "x", "e", "c", "u", "t", "e">>, <<"h", "a", "n", "d", "l", "e">>, <<"p", "r", "o", "c", "e", "s", "s">> }

PyBusinessKeywords ==
    { <<"c", "a", "l", "c", "u", "l", "a", "t", "e">>, <<"v", "a", "l", "i", "d", "a", "t", "e">>, <<"c", "r", "e", "a", "t", "e">>, <<"u", "p", "d", "a", "t", "e">>, <<"d", "e", "l", "e", "t", "e">>,
      <<"p", "r", "o", "c", "e", "s", "s">>, <<"g", "e", "n", "e", "r", "a", "t", "e">>, <<"v", "e", "r", "i", "f", "y">>, <<"a", "p", "p", "r", "o", "v", "e">>, <<"r", "e", "j", "e", "c", "t">> }

\* the complexity loop started from 0 instead of 1
FunctionComplexity_base_zero(nodes, k) ==
    LET IsDecision(i) == nodes[i].kind \in DecisionKinds
    IN  Len(SelectSeq(ast_walk(nodes, k), IsDecision))

\* the complexity loop run over the whole tree of the file
FunctionComplexity_whole_file(nodes, k) ==
    LET IsDecision(i) == nodes[i].kind \in DecisionKinds
    IN  1 + Len(SelectSeq(Indices(nodes), IsDecision))

\* the complexity loop counting boolean operators too
FunctionComplexity_with_boolop(nodes, k) ==
    LET IsDecision(i) == nodes[i].kind \in DecisionKinds \cup {"BoolOp"}
    IN  1 + Len(SelectSeq(ast_walk(nodes, k), IsDecision))

\* the complexity loop with `complexity = 1` at a boolean operator
FunctionComplexity_boolop_resets(nodes, k) ==
    LET sub == ast_walk(nodes, k)
        IsBoolOp(j) == nodes[sub[j]].kind = "BoolOp"
        ops == SelectSeq(Indices(sub), IsBoolOp)
        from == IF ops = <<>> THEN 0 ELSE ops[Len(ops)]
    IN  1 + Cardinality({ j \in (from + 1)..Len(sub) : nodes[sub[j]].kind \in DecisionKinds })

\* the complexity loop of _analyze_function: 1 for the function, 1 more for
\* every If, For, While and ExceptHandler that ast.walk(node) yields
FunctionComplexity(nodes, k) ==
    LET IsDecision(i) == nodes[i].kind \in DecisionKinds
    IN  1 + Len(SelectSeq(ast_walk(nodes, k), IsDecision))

\* the names func.calls collects from the Call nodes below the function
FunctionCalls(nodes, k) ==
    LET IsCall(i) == nodes[i].kind = "Call"
        at == SelectSeq(ast_walk(nodes, k), IsCall)
    IN  [j \in 1..Len(at) |-> nodes[at[j]].name]

BusinessRule(n, location, rule_type, priority) ==
    [id |-> <<"rule", n>>, location |-> location, rule_type |-> rule_type,
     priority |-> priority]

RECURSIVE ExtractRulesFrom_same_id(_, _, _, _, _)
\* the loop numbering both rules of one `if` from the rules before it
ExtractRulesFrom_same_id(rules, nodes, ifs, j, location) ==
    IF j > Len(ifs) THEN rules
    ELSE LET if_content == nodes[ifs[j]].text
             r1 == IF IsSubstring(<<"i", "f", " ", "n", "o", "t">>, if_content) \/ IsSubstring(<<"i", "f", " ", "!">>, if_content)
                   THEN Append(rules, BusinessRule(Len(rules) + 1, location, "validation",
                            IF IsSubstring(<<"r", "a", "i", "s", "e">>, if_content)
                               \/ IsSubstring(<<"r", "e", "t", "u", "r", "n", " ", "F", "a", "l", "s", "e">>, if_content)
                            THEN "high" ELSE "medium"))
                   ELSE rules
             r2 == IF AnyIn({ <<"m", "u", "s", "t">>, <<"s", "h", "o", "u", "l", "d">>, <<"r", "e", "q", "u", "i", "r", "e", "d">>, <<"a", "l", "l", "o", "w", "e", "d">> }, if_content)
                   THEN Append(r1, BusinessRule(Len(rules) + 1, location, "constraint",
                                                "critical"))
                   ELSE r1
         IN  ExtractRulesFrom_same_id(r2, nodes, ifs, j + 1, location)

RECURSIVE ExtractRulesFrom(_, _, _, _, _)
\* the loop of _extract_business_rules over the If nodes ifs[j..]
ExtractRulesFrom(rules, nodes, ifs, j, location) ==
    IF j > Len(ifs) THEN rules
    ELSE LET if_content == nodes[ifs[j]].text
             r1 == IF IsSubstring(<<"i", "f", " ", "n", "o", "t">>, if_content) \/ IsSubstring(<<"i", "f", " ", "!">>, if_content)
                   THEN Append(rules, BusinessRule(Len(rules) + 1, location, "validation",
                            IF IsSubstring(<<"r", "a", "i", "s", "e">>, if_content)
                               \/ IsSubstring(<<"r", "e", "t", "u", "r", "n", " ", "F", "a", "l", "s", "e">>, if_content)
                            THEN "high" ELSE "medium"))
                   ELSE rules
             r2 == IF AnyIn({ <<"m", "u", "s", "t">>, <<"s", "h", "o", "u", "l", "d">>, <<"r", "e", "q", "u", "i", "r", "e", "d">>, <<"a", "l", "l", "o", "w", "e", "d">> }, if_content)
                   THEN Append(r1, BusinessRule(Len(r1) + 1, location, "constraint",
                                                "critical"))
                   ELSE r1
         IN  ExtractRulesFrom(r2, nodes, ifs, j + 1, location)

\* an `if` whose text matches a pattern of _extract_business_rules
MakesRule(if_content) ==
    \/ IsSubstring(<<"i", "f", " ", "n", "o", "t">>, if_content)
    \/ IsSubstring(<<"i", "f", " ", "!">>, if_content)
    \/ AnyIn({ <<"m", "u", "s", "t">>, <<"s", "h", "o", "u", "l", "d">>, <<"r", "e", "q", "u", "i", "r", "e", "d">>, <<"a", "l", "l", "o", "w", "e", "d">> }, if_content)

\* the loop passes over an `if` that matches no pattern without effect
extract_business_rules(rules, nodes, k, file_path) ==
    LET IsRuleIf(i) == nodes[i].kind = "If" /\ MakesRule(nodes[i].text)
    IN  ExtractRulesFrom(rules, nodes, SelectSeq(ast_walk(nodes, k), IsRuleIf), 1,
                         <<file_path, nodes[k].name>>)

analyze_function(st, nodes, k, file_path) ==
    LET name == nodes[k].name
        func == [key |-> <<file_path, name>>,
                 name |-> name,
                 file |-> file_path,
                 calls |-> FunctionCalls(nodes, k),
                 complexity |-> FunctionComplexity(nodes, k),
                 is_entry_point |-> name \in PyEntryPoints,
                 business_logic |-> AnyIn(PyBusinessKeywords, Lower(name))]
    IN  [st EXCEPT
           !.business_rules = extract_business_rules(@, nodes, k, file_path),
           !.functions = DictPut(@, func)]

\* _analyze_class with three independent `if` tests in place of if/elif/elif
analyze_class_independent_tests(st, nodes, k, file_path) ==
    LET name == nodes[k].name
        lname == Lower(name)
        IsMethod(i) == /\ nodes[i].parent = k
                       /\ nodes[i].kind \in FunctionKinds
                       /\ ~(nodes[i].kind = "FunctionDef" /\ nodes[i].name = <<"_", "_", "i", "n", "i", "t", "_", "_">>)
        at == SelectSeq(Indices(nodes), IsMethod)
        model == [key |-> name, name |-> name, type |-> "class", file |-> file_path,
                  methods |-> [j \in 1..Len(at) |-> nodes[at[j]].name],
                  is_entity |-> AnyIn({ <<"e", "n", "t", "i", "t", "y">>, <<"m", "o", "d", "e", "l">>, <<"s", "c", "h", "e", "m", "a">>, <<"r", "e", "c", "o", "r", "d">> }, lname),
                  is_dto |-> AnyIn({ <<"d", "t", "o">>, <<"r", "e", "q", "u", "e", "s", "t">>, <<"r", "e", "s", "p", "o", "n", "s", "e">>, <<"d", "a", "t", "a">> }, lname),
                  is_value_object |-> AnyIn({ <<"v", "a", "l", "u", "e">>, <<"v", "o">> }, lname)]
    IN  [st EXCEPT !.data_models = DictPut(@, model)]

analyze_class(st, nodes, k, file_path) ==
    LET name == nodes[k].name
        lname == Lower(name)
        IsMethod(i) == /\ nodes[i].parent = k
                       /\ nodes[i].kind \in FunctionKinds
                       /\ ~(nodes[i].kind = "FunctionDef" /\ nodes[i].name = <<"_", "_", "i", "n", "i", "t", "_", "_">>)
        at == SelectSeq(Indices(nodes), IsMethod)
        entity == AnyIn({ <<"e", "n", "t", "i", "t", "y">>, <<"m", "o", "d", "e", "l">>, <<"s", "c", "h", "e", "m", "a">>, <<"r", "e", "c", "o", "r", "d">> }, lname)
        dto == ~entity /\ AnyIn({ <<"d", "t", "o">>, <<"r", "e", "q", "u", "e", "s", "t">>, <<"r", "e", "s", "p", "o", "n", "s", "e">>, <<"d", "a", "t", "a">> }, lname)
        vo == ~entity /\ ~dto /\ AnyIn({ <<"v", "a", "l", "u", "e">>, <<"v", "o">> }, lname)
        model == [key |-> name, name |-> name, type |-> "class", file |-> file_path,
                  methods |-> [j \in 1..Len(at) |-> nodes[at[j]].name],
                  is_entity |-> entity, is_dto |-> dto, is_value_object |-> vo]
    IN  [st EXCEPT !.data_models = DictPut(@, model)]

\* one pass of the loop of analyze_python, over the node k
PyVisit(st, nodes, k, rel_path) ==
    LET n == nodes[k]
    IN  CASE n.kind = "ClassDef" -> analyze_class(st, nodes, k, rel_path)
          [] n.kind \in FunctionKinds -> analyze_function(st, nodes, k, rel_path)
          [] n.kind = "Import" ->
               [st EXCEPT !.external_deps = @ \cup {SplitFirst(n.name, <<".">>)}]
          [] n.kind = "ImportFrom" /\ n.name # <<>> ->
               [st EXCEPT !.external_deps = @ \cup {SplitFirst(n.name, <<".">>)}]
          [] OTHER -> st

RECURSIVE PyWalkRange(_, _, _, _, _)
\* the passes of the loop from its position s.j up to at[hi], in order: s
\* holds the analysis state and the position of the loop; the passes up to
\* the middle run first, then those up to hi
PyWalkRange(s, nodes, at, hi, rel_path) ==
    IF s.j > hi THEN s
    ELSE IF s.j = hi
    THEN [st |-> PyVisit(s.st, nodes, at[s.j], rel_path), j |-> s.j + 1]
    ELSE PyWalkRange(PyWalkRange(s, nodes, at, (s.j + hi) \div 2, rel_path),
                     nodes, at, hi, rel_path)

\* the loop of analyze_python over ast.walk(tree), from the j-th of the
\* nodes `at` on: the classes, functions and imports, in walk order
PyWalk(st, nodes, at, j, rel_path) ==
    PyWalkRange([st |-> st, j |-> j], nodes, at, Len(at), rel_path).st

\* the nodes one of the isinstance tests of analyze_python accepts
PyVisited(nodes) ==
    LET Tested(i) == nodes[i].kind \in {"ClassDef", "Import", "ImportFrom"} \cup FunctionKinds
    IN  SelectSeq(Indices(nodes), Tested)

\* analyze_python: [st, raised].  ast.parse raises SyntaxError before anything
\* is recorded; the handler then reads rel_path, which is not yet bound, so
\* an UnboundLocalError leaves analyze_python instead of a warning.
analyze_python(st, content, rel_path) ==
    IF content.ok
    THEN [st |-> PyWalk(st, content.nodes, PyVisited(content.nodes), 1, rel_path),
          raised |-> FALSE]
    ELSE [st |-> st, raised |-> TRUE]

(***************************************************************************)
(* JavaScript/TypeScript and Rust analysis: one pass per pattern.          *)
(***************************************************************************)
OfKind(nodes, kind) ==
    LET Is(i) == nodes[i].kind = kind
        at == SelectSeq(Indices(nodes), Is)
    IN  [j \in 1..Len(at) |-> nodes[at[j]]]

RECURSIVE PutAll(_, _, _)
\* d[v.key] = v for v in vals[j..]
PutAll(d, vals, j) ==
    IF j > Len(vals) THEN d ELSE PutAll(DictPut(d, vals[j]), vals, j + 1)

FunctionInfo(file, name, entry, business) ==
    [key |-> <<file, name>>, name |-> name, file |-> file, calls |-> <<>>,
     complexity |-> 1, is_entry_point |-> entry, business_logic |-> business]

DataModel(file, name, type, entity) ==
    [key |-> name, name |-> name, type |-> type, file |-> file, methods |-> <<>>,
     is_entity |-> entity, is_dto |-> FALSE, is_value_object |-> FALSE]

JsEntryPoints == { <<"m", "a", "i", "n">>, <<"r", "u", "n">>, <<"h", "a", "n", "d", "l", "e">>, <<"p", "r", "o", "c", "e", "s", "s">>, <<"c", "o", "n", "t", "r", "o", "l", "l", "e", "r">> }

analyze_javascript(st, content, rel_path) ==
    LET nodes == content.nodes
        classes == OfKind(nodes, "class")
        funcs == OfKind(nodes, "function")
        imports == OfKind(nodes, "import")
        models == [j \in 1..Len(classes) |->
                     DataModel(rel_path, classes[j].name, "class", FALSE)]
        infos == [j \in 1..Len(funcs) |->
                    FunctionInfo(rel_path, funcs[j].name,
                                 funcs[j].name \in JsEntryPoints, FALSE)]
        deps == { SplitFirst(imports[j].name, <<"/">>) :
                    j \in { i \in 1..Len(imports) : imports[i].name[1] # "." } }
    IN  [st EXCEPT !.data_models = PutAll(@, models, 1),
                   !.functions = PutAll(@, infos, 1),
                   !.external_deps = @ \cup deps]

RustEntryPoints == { <<"m", "a", "i", "n">>, <<"r", "u", "n">>, <<"e", "x", "e", "c", "u", "t", "e">>, <<"h", "a", "n", "d", "l", "e">>, <<"p", "r", "o", "c", "e", "s", "s">>, <<"n", "e", "w">> }

RECURSIVE MatchRules(_, _, _, _)
\* the loop of analyze_rust over the match expressions ms[j..]
MatchRules(rules, ms, j, rel_path) ==
    IF j > Len(ms) THEN rules
    ELSE MatchRules(
           IF AnyIn({ <<"E", "r", "r">>, <<"N", "o", "n", "e">>, <<"I", "n", "v", "a", "l", "i", "d">>, <<"E", "r", "r", "o", "r">> }, ms[j].text)
           THEN Append(rules, BusinessRule(Len(rules) + 1, <<rel_path, <<"m", "a", "t", "c", "h">>>>,
                                           "validation", "high"))
           ELSE rules,
           ms, j + 1, rel_path)

analyze_rust(st, content, rel_path) ==
    LET nodes == content.nodes
        structs == OfKind(nodes, "struct")
        enums == OfKind(nodes, "enum")
        fns == OfKind(nodes, "fn")
        uses == OfKind(nodes, "use")
        smodels == [j \in 1..Len(structs) |->
                      DataModel(rel_path, structs[j].name, "struct",
                                AnyIn({ <<"e", "n", "t", "i", "t", "y">>, <<"m", "o", "d", "e", "l">>, <<"d", "a", "t", "a">>, <<"r", "e", "c", "o", "r", "d">> },
                                      Lower(structs[j].name)))]
        emodels == [j \in 1..Len(enums) |->
                      DataModel(rel_path, enums[j].name, "enum", FALSE)]
        infos == [j \in 1..Len(fns) |->
                    FunctionInfo(rel_path, fns[j].name,
                                 fns[j].name \in RustEntryPoints,
                                 AnyIn({ <<"c", "a", "l", "c", "u", "l", "a", "t", "e">>, <<"v", "a", "l", "i", "d", "a", "t", "e">>, <<"c", "r", "e", "a", "t", "e">>, <<"u", "p", "d", "a", "t", "e">>,
                                         <<"d", "e", "l", "e", "t", "e">>, <<"p", "r", "o", "c", "e", "s", "s">> }, fns[j].name))]
        heads == { SplitFirst(uses[j].name, <<":", ":">>) : j \in 1..Len(uses) }
        deps == { d \in heads : d # <<>> /\ d \notin { <<"s", "t", "d">>, <<"c", "r", "a", "t", "e">>, <<"s", "e", "l", "f">>, <<"s", "u", "p", "e", "r">> } }
    IN  [st EXCEPT !.data_models = PutAll(PutAll(@, smodels, 1), emodels, 1),
                   !.functions = PutAll(@, infos, 1),
                   !.external_deps = @ \cup deps,
                   !.business_rules = MatchRules(@, OfKind(nodes, "match"), 1, rel_path)]

(***************************************************************************)
(* DeepCodeAnalyzer.run.                                                   *)
(***************************************************************************)
FunctionsLimit == 50

CriticalDeps == { <<"r", "e", "q", "u", "e", "s", "t", "s">>, <<"a", "x", "i", "o", "s">>, <<"s", "q", "l", "a", "l", "c", "h", "e", "m", "y">>, <<"m", "o", "n", "g", "o", "o", "s", "e">> }

EmptyReport ==
    [path |-> <<>>, total_files |-> 0, total_lines |-> 0, languages |-> <<>>,
     entry_points |-> <<>>, functions |-> <<>>, data_models |-> <<>>,
     business_rules |-> <<>>, external_deps |-> <<>>, issues |-> <<>>,
     execution_paths |-> <<>>]

RECURSIVE SumLines(_, _)
SumLines(paths, k) ==
    IF k > Len(paths) THEN 0 ELSE Entry(paths[k]).lines + SumLines(paths, k + 1)

\* lang_count: how many of self.files carry each suffix
LangCount(paths) ==
    [s \in { PathSuffix(paths[k]) : k \in 1..Len(paths) } |->
        Cardinality({ k \in 1..Len(paths) : PathSuffix(paths[k]) = s })]

\* the orders in which a set can be iterated
Orders(S) ==
    { o \in [1..Cardinality(S) -> S] : \A i, j \in 1..Cardinality(S) : o[i] = o[j] => i = j }

AnalysisState ==
    [functions |-> functions, data_models |-> data_models,
     business_rules |-> business_rules, external_deps |-> external_deps]

\* the pass of the loop with every other suffix sent to analyze_javascript
AnalyzeOne_other_as_javascript(st, file_path) ==
    LET e == Entry(file_path)
        ext == PathSuffix(file_path)
        rel_path == RelPath(root_path, file_path)
    IN  IF ~e.readable THEN [st |-> st, raised |-> TRUE]
        ELSE CASE ext = <<".", "p", "y">> -> analyze_python(st, e.content, rel_path)
               [] ext = <<".", "r", "s">> ->
                    [st |-> analyze_rust(st, e.content, rel_path), raised |-> FALSE]
               [] OTHER ->
                    [st |-> analyze_javascript(st, e.content, rel_path), raised |-> FALSE]

\* what one pass of the loop of run does with files[idx]: [st, raised]
AnalyzeOne(st, file_path) ==
    LET e == Entry(file_path)
        ext == PathSuffix(file_path)
        rel_path == RelPath(root_path, file_path)
    IN  IF ~e.readable THEN [st |-> st, raised |-> TRUE]
        ELSE CASE ext = <<".", "p", "y">> -> analyze_python(st, e.content, rel_path)
               [] ext \in { <<".", "j", "s">>, <<".", "t", "s">> } ->
                    [st |-> analyze_javascript(st, e.content, rel_path), raised |-> FALSE]
               [] ext = <<".", "r", "s">> ->
                    [st |-> analyze_rust(st, e.content, rel_path), raised |-> FALSE]
               [] OTHER -> [st |-> st, raised |-> FALSE]

\* run, up to the loop: discover_files
Discover ==
    /\ pc = "start"
    /\ files' = discover_files(exclude_patterns, root_path, root_is_file, fs)
    /\ idx' = 1
    /\ pc' = "loop"
    /\ calls' = calls + 1
    /\ UNCHANGED <<root_path, root_is_file, fs, exclude_patterns, functions,
                   data_models, business_rules, external_deps, report, warned, returned,
                   dfsVars, toolVars, scriptVars>>

\* the pass of the loop without its try/except: a raise leaves run
AnalyzeFileNoExcept ==
    /\ pc = "loop"
    /\ idx <= Len(files)
    /\ LET r == AnalyzeOne(AnalysisState, files[idx])
       IN  /\ functions' = r.st.functions
           /\ data_models' = r.st.data_models
           /\ business_rules' = r.st.business_rules
           /\ external_deps' = r.st.external_deps
           /\ pc' = IF r.raised THEN "raised" ELSE pc
    /\ idx' = idx + 1
    /\ UNCHANGED <<root_path, root_is_file, fs, exclude_patterns, files, report, warned,
                   calls, returned, dfsVars, toolVars, scriptVars>>

\* one pass of the loop; `except Exception` turns a raise into a warning
AnalyzeFile ==
    /\ pc = "loop"
    /\ idx <= Len(files)
    /\ LET r == AnalyzeOne(AnalysisState, files[idx])
       IN  /\ functions' = r.st.functions
           /\ data_models' = r.st.data_models
           /\ business_rules' = r.st.business_rules
           /\ external_deps' = r.st.external_deps
           /\ warned' = IF r.raised THEN Append(warned, files[idx]) ELSE warned
    /\ idx' = idx + 1
    /\ UNCHANGED <<root_path, root_is_file, fs, exclude_patterns, files, report, pc,
                   calls, returned, dfsVars, toolVars, scriptVars>>

PathsLimit == 5

StepsLimit == 10

\* the state of the while loop of identify_execution_paths before its first pass
TraceStart(entry) == [steps |-> <<>>, visited |-> {}, to_visit |-> << entry.name >>]

\* the test of the while loop
TraceRuns(s) == s.to_visit # <<>> /\ Len(s.steps) < StepsLimit

\* one pass of the while loop without the test `current in visited`
TraceStep_no_visited_test(funcs, s) ==
    LET current == Head(s.to_visit)
        seen == s.visited \cup {current}
        Appended(f) == current \in Range(f.calls) /\ f.name \notin seen
        more == SelectSeq(funcs, Appended)
    IN  [steps |-> Append(s.steps, current),
         visited |-> seen,
         to_visit |-> Tail(s.to_visit) \o [j \in 1..Len(more) |-> more[j].name]]

\* one pass of the while loop: current is popped; if it is new it becomes a
\* step, and the name of every function whose calls hold current and whose
\* name is not visited is appended to to_visit
TraceStep(funcs, s) ==
    LET current == Head(s.to_visit)
        seen == s.visited \cup {current}
        Appended(f) == current \in Range(f.calls) /\ f.name \notin seen
        more == SelectSeq(funcs, Appended)
    IN  IF current \in s.visited THEN [s EXCEPT !.to_visit = Tail(@)]
        ELSE [steps |-> Append(s.steps, current),
              visited |-> seen,
              to_visit |-> Tail(s.to_visit) \o [j \in 1..Len(more) |-> more[j].name]]

RECURSIVE Trace(_, _)
\* the while loop
Trace(funcs, s) == IF TraceRuns(s) THEN Trace(funcs, TraceStep(funcs, s)) ELSE s

\* identify_execution_paths: a path for each of the first five entry points
identify_execution_paths(funcs) ==
    LET IsEntry(f) == f.is_entry_point
        entry_points == SelectSeq(funcs, IsEntry)
        top == SubSeq(entry_points, 1,
                      IF Len(entry_points) < PathsLimit THEN Len(entry_points)
                      ELSE PathsLimit)
    IN  [k \in 1..Len(top) |->
           [name |-> top[k].name,
            entry_point |-> <<top[k].file, top[k].name>>,
            critical |-> top[k].business_logic,
            steps |-> Trace(funcs, TraceStart(top[k])).steps]]

\* run, after the loop, with entry_points taken from all of self.functions
BuildReport_entry_points_of_all ==
    /\ pc = "loop"
    /\ idx > Len(files)
    /\ IF \E k \in 1..Len(files) : ~Entry(files[k]).readable
       THEN /\ report' = [report EXCEPT !.path = root_path, !.total_files = Len(files)]
            /\ pc' = "raised"
            /\ UNCHANGED returned
       ELSE /\ \E order \in Orders(external_deps) :
                 LET shown == SubSeq(functions, 1,
                                 IF Len(functions) < FunctionsLimit
                                 THEN Len(functions) ELSE FunctionsLimit)
                     IsEntry(f) == f.is_entry_point
                 IN  report' = [report EXCEPT
                        !.path = root_path,
                        !.total_files = Len(files),
                        !.total_lines = SumLines(files, 1),
                        !.languages = LangCount(files),
                        !.functions = shown,
                        !.data_models = data_models,
                        !.business_rules = business_rules,
                        !.entry_points = SelectSeq(functions, IsEntry),
                        !.external_deps = @ \o
                            [k \in 1..Len(order) |->
                               [name |-> order[k], critical |-> order[k] \in CriticalDeps]],
                        !.execution_paths = identify_execution_paths(functions)]
            /\ returned' = Append(returned, [call |-> calls, report |-> report'])
            /\ pc' = "done"
    /\ UNCHANGED <<root_path, root_is_file, fs, exclude_patterns, files, functions,
                   data_models, business_rules, external_deps, warned, idx, calls,
                   dfsVars, toolVars, scriptVars>>

\* run, after the loop: the report.  total_lines opens every file again,
\* outside any try, so an unreadable file raises out of run here.
BuildReport ==
    /\ pc = "loop"
    /\ idx > Len(files)
    /\ IF \E k \in 1..Len(files) : ~Entry(files[k]).readable
       THEN /\ report' = [report EXCEPT !.path = root_path, !.total_files = Len(files)]
            /\ pc' = "raised"
            /\ UNCHANGED returned
       ELSE /\ \E order \in Orders(external_deps) :
                 LET shown == SubSeq(functions, 1,
                                 IF Len(functions) < FunctionsLimit
                                 THEN Len(functions) ELSE FunctionsLimit)
                     IsEntry(f) == f.is_entry_point
                 IN  report' = [report EXCEPT
                        !.path = root_path,
                        !.total_files = Len(files),
                        !.total_lines = SumLines(files, 1),
                        !.languages = LangCount(files),
                        !.functions = shown,
                        !.data_models = data_models,
                        !.business_rules = business_rules,
                        !.entry_points = SelectSeq(shown, IsEntry),
                        !.external_deps = @ \o
                            [k \in 1..Len(order) |->
                               [name |-> order[k], critical |-> order[k] \in CriticalDeps]],
                        !.execution_paths = identify_execution_paths(functions)]
            /\ returned' = Append(returned, [call |-> calls, report |-> report'])
            /\ pc' = "done"
    /\ UNCHANGED <<root_path, root_is_file, fs, exclude_patterns, files, functions,
                   data_models, business_rules, external_deps, warned, idx, calls,
                   dfsVars, toolVars, scriptVars>>

Run == Discover \/ AnalyzeFile \/ BuildReport

\* run called once more on the analyzer whose run has returned
RunAgain ==
    /\ pc = "done"
    /\ Len(returned) < MaxRuns
    /\ pc' = "start"
    /\ UNCHANGED <<root_path, root_is_file, fs, exclude_patterns, files, functions,
                   data_models, business_rules, external_deps, report, warned, idx, calls,
                   returned, dfsVars, toolVars, scriptVars>>

(***************************************************************************)
(* JavaCodeReviewer (java-code-review/scripts/review.py).  A Java file is  *)
(* its lines, each line the record of what the patterns of the checks find *)
(* on it, with the facts the checks take from the whole content: the       *)
(* methods longer than 50 lines, the parameter lists of more than 5, and   *)
(* the blank lines that follow.                                            *)
(***************************************************************************)
\* a line on which no pattern matches
JLine ==
    [class_name |-> <<>>,       \* X of `public class X`
     method |-> "none",         \* a method declared: "camel" or "upper" case name
     sql |-> FALSE,             \* an SQL string built with +
     password |-> FALSE,        \* password = "..."
     xss |-> "none",            \* .getParameter(...): "raw" or "escaped"
     nplus1 |-> FALSE,          \* for (...) { ... .find(...)
     resource |-> "none",       \* new FileInputStream(: "bare" or "in_try"
     concat |-> FALSE,          \* String ... +=
     collection |-> "none",     \* HashMap<...> x =: "local" or "shared"
     synchronized |-> FALSE]    \* public synchronized ...

JavaContent(lines, long_methods, many_params, blank) ==
    [lines |-> lines, long_methods |-> long_methods, many_params |-> many_params,
     blank |-> blank]

\* content.split('\n'): the lines and the blank lines after them
JavaLineCount(content) == Len(content.lines) + content.blank

JavaIssue(type, location, description) ==
    [type |-> type, location |-> location, description |-> description]

\* the issues a loop over the lines appends: one per line that Hit accepts
LineIssues(content, file_path, Hit(_), type, description) ==
    LET at == SelectSeq(Indices(content.lines), LAMBDA i : Hit(content.lines[i]))
    IN  [j \in 1..Len(at) |-> JavaIssue(type, <<file_path, at[j]>>, description)]

\* file_path.name.replace('.java', '')
JavaStem(file_path) ==
    LET name == PathName(file_path)
        n == Len(name)
    IN  IF n >= 5 /\ SubSeq(name, n - 4, n) = <<".", "j", "a", "v", "a">> THEN SubSeq(name, 1, n - 5) ELSE name

check_naming(issues, file_path, content) ==
    LET decl == SelectSeq(Indices(content.lines),
                          LAMBDA i : content.lines[i].class_name # <<>>)
        mismatch == IF decl # <<>> /\ content.lines[decl[1]].class_name # JavaStem(file_path)
                    THEN << JavaIssue("naming", <<file_path>>, "class name") >>
                    ELSE <<>>
    IN  [issues EXCEPT
           !.major = @ \o mismatch,
           !.minor = @ \o LineIssues(content, file_path, LAMBDA l : l.method = "upper",
                                     "naming", "method name")]

check_code_smell(issues, file_path, content) ==
    [issues EXCEPT
       !.major = @ \o [j \in 1..Len(content.long_methods) |->
                         JavaIssue("smell", <<file_path>>, content.long_methods[j])]
                   \o (IF JavaLineCount(content) > 500
                       THEN << JavaIssue("smell", <<file_path>>, "class too large") >>
                       ELSE <<>>),
       !.minor = @ \o [j \in 1..content.many_params |->
                         JavaIssue("smell", <<file_path>>, "too many parameters")]]

check_security(issues, file_path, content) ==
    [issues EXCEPT
       !.critical = @ \o LineIssues(content, file_path, LAMBDA l : l.sql, "security", "sql")
                      \o LineIssues(content, file_path, LAMBDA l : l.password,
                                    "security", "password"),
       !.major = @ \o LineIssues(content, file_path, LAMBDA l : l.xss = "raw",
                                 "security", "xss")]

check_performance(issues, file_path, content) ==
    [issues EXCEPT
       !.major = @ \o LineIssues(content, file_path, LAMBDA l : l.nplus1,
                                 "performance", "n+1")
                   \o LineIssues(content, file_path, LAMBDA l : l.resource = "bare",
                                 "performance", "resource"),
       !.minor = @ \o LineIssues(content, file_path, LAMBDA l : l.concat,
                                 "performance", "concat")]

check_concurrency(issues, file_path, content) ==
    [issues EXCEPT
       !.major = @ \o LineIssues(content, file_path, LAMBDA l : l.collection = "shared",
                                 "concurrency", "collection"),
       !.minor = @ \o LineIssues(content, file_path, LAMBDA l : l.synchronized,
                                 "concurrency", "synchronized")]

\* _review_file on [issues, stats]: a file that cannot be opened is passed over
review_file(r, e) ==
    IF ~(e.is_file /\ e.readable) THEN r
    ELSE [issues |-> check_concurrency(
                       check_performance(
                         check_security(
                           check_code_smell(
                             check_naming(r.issues, e.path, e.content),
                             e.path, e.content),
                           e.path, e.content),
                         e.path, e.content),
                       e.path, e.content),
          stats |-> [r.stats EXCEPT !.files = @ + 1,
                                    !.lines = @ + JavaLineCount(e.content)]]

RECURSIVE ReviewAll(_, _, _)
\* the loop of scan over java_files[k..]
ReviewAll(r, java_files, k) ==
    IF k > Len(java_files) THEN r
    ELSE ReviewAll(review_file(r, java_files[k]), java_files, k + 1)

\* root_path.rglob('*.java'): the entries of the tree named *.java
JavaFilesOf(tree) ==
    SelectSeq(tree, LAMBDA e : LET n == Len(e.path)
                               IN  n >= 5 /\ SubSeq(e.path, n - 4, n) = <<".", "j", "a", "v", "a">>)

IdleReviewer ==
    [pc |-> "idle", tree |-> <<>>,
     issues |-> [critical |-> <<>>, major |-> <<>>, minor |-> <<>>],
     stats |-> [files |-> 0, lines |-> 0],
     scans |-> <<>>]

\* JavaCodeReviewer(path) on a root whose walk yields tree
ReviewerNew(tree) ==
    /\ reviewer' = [IdleReviewer EXCEPT !.pc = "ready", !.tree = tree]
    /\ UNCHANGED <<docs_analyzer, checker, improver, ddd, runVars, dfsVars, scriptVars>>

\* scan; scans keeps what each call left: the issues, the stats and the
\* number of files returned
ReviewerScan ==
    /\ reviewer.pc = "ready"
    /\ Len(reviewer.scans) < MaxRuns
    /\ LET java_files == JavaFilesOf(reviewer.tree)
           r == ReviewAll([issues |-> reviewer.issues, stats |-> reviewer.stats],
                          java_files, 1)
       IN  reviewer' = [reviewer EXCEPT
                          !.issues = r.issues,
                          !.stats = r.stats,
                          !.scans = Append(@, [issues |-> r.issues, stats |-> r.stats,
                                               found |-> Len(java_files)])]
    /\ UNCHANGED <<docs_analyzer, checker, improver, ddd, runVars, dfsVars, scriptVars>>

(***************************************************************************)
(* DocsAnalyzer (docs-improver/scripts/analyze.py).  The content of a      *)
(* documentation file is its text followed by pad more characters of plain *)
(* prose, in which no pattern of the checks matches.                       *)
(***************************************************************************)
\* the backquote character
BT == "bq"

\* the fence of a code block
Fence == <<BT, BT, BT>>

DocContent(text, pad) == [text |-> text, pad |-> pad]

\* len(content)
DocLen(c) == Len(c.text) + c.pad

RECURSIVE CountFrom(_, _, _)
\* s.count(sub) from position k on: occurrences that do not overlap
CountFrom(sub, s, k) ==
    IF k + Len(sub) - 1 > Len(s) THEN 0
    ELSE IF SubSeq(s, k, k + Len(sub) - 1) = sub
         THEN 1 + CountFrom(sub, s, k + Len(sub))
         ELSE CountFrom(sub, s, k + 1)

Count(sub, s) == CountFrom(sub, s, 1)

RECURSIVE SplitFrom(_, _, _, _)
\* s.split(sep): the pieces of s from position k on, the piece begun at from
SplitFrom(s, sep, from, k) ==
    IF k + Len(sep) - 1 > Len(s) THEN << SubSeq(s, from, Len(s)) >>
    ELSE IF SubSeq(s, k, k + Len(sep) - 1) = sep
         THEN << SubSeq(s, from, k - 1) >> \o SplitFrom(s, sep, k + Len(sep), k + Len(sep))
         ELSE SplitFrom(s, sep, from, k + 1)

Split(s, sep) == SplitFrom(s, sep, 1, 1)

\* s.split(): the words between runs of white space
Words(s) ==
    LET spaced == [i \in 1..Len(s) |-> IF s[i] = "\n" THEN " " ELSE s[i]]
    IN  SelectSeq(Split(spaced, <<" ">>), LAMBDA w : w # <<>>)

StartsWith(s, prefix) == Len(s) >= Len(prefix) /\ SubSeq(s, 1, Len(prefix)) = prefix

Min(a, b) == IF a < b THEN a ELSE b

Max(a, b) == IF a > b THEN a ELSE b

check_completeness(c, filename) ==
    LET low == Lower(c.text)
        checks == << IsSubstring(<<"#">>, c.text),
                     DocLen(c) > 200,
                     Count(<<"#", "#", " ">>, c.text) >= 2,
                     IsSubstring(Fence, c.text),
                     IsSubstring(<<"]", "(">>, c.text) \/ IsSubstring(<<"h", "t", "t", "p">>, c.text) >>
                  \o (IF StartsWith(filename, <<"R", "E", "A", "D", "M", "E">>)
                      THEN << IsSubstring(<<"i", "n", "s", "t", "a", "l", "l">>, low),
                              IsSubstring(<<"u", "s", "a", "g", "e">>, low) \/ IsSubstring(<<"e", "x", "a", "m", "p", "l", "e">>, low) >>
                      ELSE <<>>)
        passed == Cardinality({ i \in 1..Len(checks) : checks[i] })
    IN  Min(100, (passed * 100) \div Len(checks))

\* the clarity score without the clamp
check_clarity_no_clamp(c) ==
    LET paragraphs == Split(c.text, <<"\n", "\n">>)
        long_paragraphs ==
            Cardinality({ i \in 1..Len(paragraphs) :
                            Len(paragraphs[i])
                              + (IF i = Len(paragraphs) THEN c.pad ELSE 0) > 500 })
        s1 == 100 - Min(30, long_paragraphs * 5)
        s2 == IF IsSubstring(<<"-">>, c.text) \/ IsSubstring(<<"*">>, c.text)
                 \/ IsSubstring(<<"1", ".">>, c.text)
              THEN s1 + 10 ELSE s1
        heading_count == Count(<<"#">>, c.text)
    IN  IF heading_count >= 5 THEN s2 + 10
        ELSE IF heading_count >= 3 THEN s2 + 5 ELSE s2

check_clarity(c) ==
    LET paragraphs == Split(c.text, <<"\n", "\n">>)
        long_paragraphs ==
            Cardinality({ i \in 1..Len(paragraphs) :
                            Len(paragraphs[i])
                              + (IF i = Len(paragraphs) THEN c.pad ELSE 0) > 500 })
        s1 == 100 - Min(30, long_paragraphs * 5)
        s2 == IF IsSubstring(<<"-">>, c.text) \/ IsSubstring(<<"*">>, c.text)
                 \/ IsSubstring(<<"1", ".">>, c.text)
              THEN s1 + 10 ELSE s1
        heading_count == Count(<<"#">>, c.text)
        s3 == IF heading_count >= 5 THEN s2 + 10
              ELSE IF heading_count >= 3 THEN s2 + 5 ELSE s2
    IN  Max(0, Min(100, s3))

check_structure(c) ==
    LET low == Lower(c.text)
    IN  Min(100,
            (IF IsSubstring(<<"#", " ">>, c.text) THEN 20 ELSE 0)
          + (IF IsSubstring(<<"#", "#", " ">>, c.text) THEN 30 ELSE 0)
          + (IF IsSubstring(<<"#", "#", "#", " ">>, c.text) THEN 20 ELSE 0)
          + (IF IsSubstring(<<"t", "o", "c">>, low) \/ IsSubstring(<<"c", "o", "n", "t", "e", "n", "t", "s">>, low) THEN 15 ELSE 0)
          + (IF Count(Fence, c.text) % 2 = 0 THEN 15 ELSE 0))

check_maintainability(c) ==
    LET s1 == IF DocLen(c) > 50000 THEN 80 ELSE 100
        s2 == IF IsSubstring(<<"T", "O", "D", "O">>, c.text) \/ IsSubstring(<<"F", "I", "X", "M", "E">>, c.text)
              THEN s1 - 15 ELSE s1
        words == Words(c.text)
        internal_links ==
            Cardinality({ i \in 1..Len(words) :
                            StartsWith(words[i], <<"[">>) /\ IsSubstring(<<"]", "(">>, words[i]) })
        s3 == IF internal_links >= 5 THEN s2 + 15 ELSE s2
    IN  Max(0, Min(100, s3))

ZeroScores ==
    [overall |-> 0, completeness |-> 0, accuracy |-> 0, clarity |-> 0,
     structure |-> 0, maintainability |-> 0]

\* _analyze_file: a file that cannot be opened scores 0 throughout; the
\* weights .30 .10 .25 .20 .15 and int() are the integer division below
analyze_file(e) ==
    IF ~(e.is_file /\ e.readable) THEN ZeroScores
    ELSE LET completeness == check_completeness(e.content, PathName(e.path))
             clarity == check_clarity(e.content)
             structure == check_structure(e.content)
             maintainability == check_maintainability(e.content)
             accuracy == 70
         IN  [overall |-> (30 * completeness + 10 * accuracy + 25 * clarity
                             + 20 * structure + 15 * maintainability) \div 100,
              completeness |-> completeness, accuracy |-> accuracy,
              clarity |-> clarity, structure |-> structure,
              maintainability |-> maintainability]

EmptyQualityReport ==
    [overall_score |-> 0, completeness_score |-> 0, accuracy_score |-> 0,
     clarity_score |-> 0, structure_score |-> 0, maintainability_score |-> 0,
     files_analyzed |-> <<>>, issues |-> <<>>,
     recommendations |-> [quick_wins |-> <<>>, short_term |-> <<>>, long_term |-> <<>>]]

DocPatterns == << <<".", "m", "d">>, <<".", "r", "s", "t">>, <<".", "t", "x", "t">>, <<".", "a", "d", "o", "c">> >>

DocExcludeDirs == { <<"n", "o", "d", "e", "_", "m", "o", "d", "u", "l", "e", "s">>, <<"v", "e", "n", "d", "o", "r">>, <<".", "g", "i", "t">>, <<"d", "i", "s", "t">>, <<"b", "u", "i", "l", "d">> }

EndsWith(s, suffix) ==
    Len(s) >= Len(suffix) /\ SubSeq(s, Len(s) - Len(suffix) + 1, Len(s)) = suffix

RECURSIVE ExtendByPattern(_, _, _)
\* the loop of scan over the patterns k..: doc_files.extend(rglob(pattern))
ExtendByPattern(doc_files, tree, k) ==
    IF k > Len(DocPatterns) THEN doc_files
    ELSE ExtendByPattern(
           doc_files \o SelectSeq(tree, LAMBDA e : EndsWith(PathName(e.path), DocPatterns[k])),
           tree, k + 1)

\* scan: the list is extended, then filtered by the excluded directory names
docs_scan(doc_files, tree) ==
    SelectSeq(ExtendByPattern(doc_files, tree, 1),
              LAMBDA e : ~AnyIn(DocExcludeDirs, e.path))

RECURSIVE SumOf(_, _, _)
SumOf(scores, field, k) ==
    IF k > Len(scores) THEN 0 ELSE scores[k][field] + SumOf(scores, field, k + 1)

generate_recommendations(rep) ==
    [rep EXCEPT
       !.recommendations.quick_wins =
           @ \o (IF rep.completeness_score < 60
                 THEN <<"Add project description and badges", "Add code examples">>
                 ELSE <<>>),
       !.recommendations.short_term =
           @ \o (IF rep.structure_score < 60
                 THEN <<"Improve document structure with clear sections",
                        "Add table of contents">>
                 ELSE <<>>),
       !.recommendations.long_term =
           @ \o (IF rep.maintainability_score < 60
                 THEN <<"Break down large documents", "Remove TODOs and FIXMEs">>
                 ELSE <<>>)
             \o <<"Set up automated documentation generation",
                  "Establish documentation review process">>]

\* analyze on the rep of the analyzer
docs_analyze(rep, root, doc_files) ==
    IF doc_files = <<>>
    THEN [rep EXCEPT
            !.overall_score = 0,
            !.issues = Append(@, [severity |-> "critical", type |-> "no_docs"])]
    ELSE LET scores == [k \in 1..Len(doc_files) |-> analyze_file(doc_files[k])]
             n == Len(scores)
         IN  generate_recommendations(
               [rep EXCEPT
                  !.files_analyzed =
                      @ \o [k \in 1..n |->
                              [path |-> RelPath(root, doc_files[k].path),
                               size |-> DocLen(doc_files[k].content),
                               score |-> scores[k].overall]],
                  !.overall_score = SumOf(scores, "overall", 1) \div n,
                  !.completeness_score = SumOf(scores, "completeness", 1) \div n,
                  !.accuracy_score = SumOf(scores, "accuracy", 1) \div n,
                  !.clarity_score = SumOf(scores, "clarity", 1) \div n,
                  !.structure_score = SumOf(scores, "structure", 1) \div n,
                  !.maintainability_score = SumOf(scores, "maintainability", 1) \div n])

IdleDocsAnalyzer ==
    [pc |-> "idle", root |-> <<>>, tree |-> <<>>, doc_files |-> <<>>,
     report |-> EmptyQualityReport, scans |-> 0, passes |-> <<>>]

\* DocsAnalyzer(path) on a root whose walk yields tree
DocsNew(root, tree) ==
    /\ docs_analyzer' = [IdleDocsAnalyzer EXCEPT !.pc = "ready", !.root = root,
                                                 !.tree = tree]
    /\ UNCHANGED <<reviewer, checker, improver, ddd, runVars, dfsVars, scriptVars>>

DocsScan ==
    /\ docs_analyzer.pc = "ready"
    /\ docs_analyzer.scans < MaxRuns
    /\ docs_analyzer' = [docs_analyzer EXCEPT
                           !.doc_files = docs_scan(@, docs_analyzer.tree),
                           !.scans = @ + 1]
    /\ UNCHANGED <<reviewer, checker, improver, ddd, runVars, dfsVars, scriptVars>>

\* analyze; passes keeps what each call left: the report and the number of
\* files in doc_files
DocsAnalyze ==
    /\ docs_analyzer.pc = "ready"
    /\ Len(docs_analyzer.passes) < MaxRuns
    /\ LET r == docs_analyze(docs_analyzer.report, docs_analyzer.root,
                             docs_analyzer.doc_files)
       IN  docs_analyzer' = [docs_analyzer EXCEPT
                               !.report = r,
                               !.passes = Append(@, [report |-> r,
                                                     files |-> Len(docs_analyzer.doc_files)])]
    /\ UNCHANGED <<reviewer, checker, improver, ddd, runVars, dfsVars, scriptVars>>

(***************************************************************************)
(* ConsistencyChecker (docs-improver/scripts/consistency-check.py) and     *)
(* DocsImprover (docs-improver/scripts/improve.py).  An entry of the tree  *)
(* says whether it can be opened and whether its bytes decode as text in   *)
(* the encoding open() takes by default.  A Markdown content is the        *)
(* endpoints, code blocks (the names after `def`) and link targets the     *)
(* patterns find in it, and its text; a Python content the endpoints of    *)
(* its route decorators and the functions it defines.                      *)
(***************************************************************************)
ProjectFile(path, is_file, readable, decodes, content) ==
    [path |-> path, is_file |-> is_file, readable |-> readable, decodes |-> decodes,
     content |-> content]

MdContent(text, endpoints, blocks, links) ==
    [text |-> text, endpoints |-> endpoints, blocks |-> blocks, links |-> links,
     defs |-> {}]

PyContent(endpoints, defs) ==
    [text |-> <<>>, endpoints |-> endpoints, blocks |-> <<>>, links |-> <<>>,
     defs |-> defs]

\* path.exists()
Exists(tree, p) == \E i \in 1..Len(tree) : tree[i].path = p

EntryAt(tree, p) == tree[CHOOSE i \in 1..Len(tree) : tree[i].path = p]

\* open(p, 'r') and read() succeed: a file, permitted, of valid text
Reads(e) == e.is_file /\ e.readable /\ e.decodes

\* root_path.rglob('*' + suffix)
Rglob(tree, suffix) == SelectSeq(tree, LAMBDA e : EndsWith(PathName(e.path), suffix))

\* _find_api_docs: the first of the three names that exists, or <<>>
find_api_docs(root, tree) ==
    LET names == << <<"A", "P", "I", ".", "m", "d">>, <<"a", "p", "i", ".", "m", "d">>, <<"d", "o", "c", "s", "/", "A", "P", "I", ".", "m", "d">> >>
        hits == SelectSeq(names, LAMBDA n : Exists(tree, Join(root, n)))
    IN  IF hits = <<>> THEN <<>> ELSE Join(root, hits[1])

\* the endpoints of the Python files that can be read; the others are passed over
ActualEndpoints(tree) ==
    UNION { Range(e.content.endpoints) : e \in { f \in Range(Rglob(tree, <<".", "p", "y">>)) : Reads(f) } }

\* _function_exists
function_exists(tree, func_name) ==
    \E e \in Range(Rglob(tree, <<".", "p", "y">>)) : Reads(e) /\ func_name \in e.content.defs

ConsistencyIssue(type, severity, location, subject) ==
    [type |-> type, severity |-> severity, location |-> location, subject |-> subject]

Flatten3(blocks) ==
    LET b == SubSeq(blocks, 1, Min(3, Len(blocks)))
    IN  (IF Len(b) >= 1 THEN b[1] ELSE <<>>) \o (IF Len(b) >= 2 THEN b[2] ELSE <<>>)
          \o (IF Len(b) >= 3 THEN b[3] ELSE <<>>)

RECURSIVE CheckExamplesFrom(_, _, _, _)
\* the loop of _check_code_examples over the Markdown files mds[k..]
CheckExamplesFrom(issues, tree, mds, k) ==
    IF k > Len(mds) THEN issues
    ELSE IF ~Reads(mds[k]) THEN CheckExamplesFrom(issues, tree, mds, k + 1)
    ELSE LET funcs == SelectSeq(Flatten3(mds[k].content.blocks),
                                LAMBDA f : ~function_exists(tree, f))
         IN  CheckExamplesFrom(
               issues \o [j \in 1..Len(funcs) |->
                            ConsistencyIssue("code_example_outdated", "minor",
                                             mds[k].path, funcs[j])],
               tree, mds, k + 1)

\* the link is checked on disk and its target is missing
BrokenLink(root, tree, link) ==
    /\ ~StartsWith(link, <<"h", "t", "t", "p">>)
    /\ ~StartsWith(link, <<"#">>)
    /\ SplitFirst(link, <<"#">>) # <<>>
    /\ ~Exists(tree, Join(root, SplitFirst(link, <<"#">>)))

RECURSIVE CheckLinksFrom(_, _, _, _, _)
\* the loop of _check_links over the Markdown files mds[k..]
CheckLinksFrom(issues, root, tree, mds, k) ==
    IF k > Len(mds) THEN issues
    ELSE IF ~Reads(mds[k]) THEN CheckLinksFrom(issues, root, tree, mds, k + 1)
    ELSE LET broken == SelectSeq(mds[k].content.links,
                                 LAMBDA l : BrokenLink(root, tree, l))
         IN  CheckLinksFrom(
               issues \o [j \in 1..Len(broken) |->
                            ConsistencyIssue("broken_link", "minor", mds[k].path, broken[j])],
               root, tree, mds, k + 1)

IdleChecker == [pc |-> "idle", root |-> <<>>, tree |-> <<>>, issues |-> <<>>]

\* ConsistencyChecker(path) on a root whose walk yields tree
CheckerNew(root, tree) ==
    /\ checker' = [IdleChecker EXCEPT !.pc = "ready", !.root = root, !.tree = tree]
    /\ UNCHANGED <<reviewer, docs_analyzer, improver, ddd, runVars, dfsVars, scriptVars>>

\* check_all.  _check_api_docs opens the API document outside any try: when
\* it cannot be read the exception leaves check_all before any issue is added.
CheckAll ==
    /\ checker.pc = "ready"
    /\ LET root == checker.root
           tree == checker.tree
           api_docs == find_api_docs(root, tree)
           mds == Rglob(tree, <<".", "m", "d">>)
       IN  IF api_docs # <<>> /\ ~Reads(EntryAt(tree, api_docs))
           THEN checker' = [checker EXCEPT !.pc = "raised"]
           ELSE LET missing == IF api_docs = <<>> THEN {}
                               ELSE ActualEndpoints(tree)
                                      \ Range(EntryAt(tree, api_docs).content.endpoints)
                IN  \E order \in Orders(missing) :
                       LET first == SubSeq(order, 1, Min(5, Len(order)))
                           api == [j \in 1..Len(first) |->
                                     ConsistencyIssue("api_mismatch", "major", api_docs,
                                                      first[j])]
                       IN  checker' = [checker EXCEPT
                              !.issues = CheckLinksFrom(
                                           CheckExamplesFrom(@ \o api, tree, mds, 1),
                                           root, tree, mds, 1),
                              !.pc = "done"]
    /\ UNCHANGED <<reviewer, docs_analyzer, improver, ddd, runVars, dfsVars, scriptVars>>

\* _check_readme on the recommendations: [recs, raised]
check_readme(recs, root, tree) ==
    LET readme == Join(root, <<"R", "E", "A", "D", "M", "E", ".", "m", "d">>)
    IN  IF ~Exists(tree, readme)
        THEN [recs |-> [recs EXCEPT !.quick_wins =
                                       Append(@, "Create README.md with project overview")],
              raised |-> FALSE]
        ELSE IF ~Reads(EntryAt(tree, readme)) THEN [recs |-> recs, raised |-> TRUE]
        ELSE LET content == Lower(EntryAt(tree, readme).content.text)
             IN  [recs |-> [recs EXCEPT
                     !.quick_wins =
                         @ \o (IF ~IsSubstring(<<"i", "n", "s", "t", "a", "l", "l">>, content)
                               THEN <<"Add installation instructions">> ELSE <<>>)
                           \o (IF ~IsSubstring(<<"u", "s", "a", "g", "e">>, content)
                                  /\ ~IsSubstring(<<"e", "x", "a", "m", "p", "l", "e">>, content)
                               THEN <<"Add usage examples">> ELSE <<>>)
                           \o (IF ~IsSubstring(Fence, content)
                               THEN <<"Add code examples">> ELSE <<>>),
                     !.short_term =
                         @ \o (IF ~IsSubstring(<<"c", "o", "n", "t", "r", "i", "b", "u", "t">>, content)
                               THEN <<"Add contributing guidelines">> ELSE <<>>)],
                  raised |-> FALSE]

\* any(examples_dir.iterdir())
HasChildren(tree, dir) == \E i \in 1..Len(tree) : StartsWith(tree[i].path, dir \o <<"/">>)

\* _check_examples: [recs, raised]; iterdir() on a plain file raises
check_examples(recs, root, tree) ==
    LET examples_dir == Join(root, <<"e", "x", "a", "m", "p", "l", "e", "s">>)
    IN  IF ~Exists(tree, examples_dir)
        THEN [recs |-> [recs EXCEPT !.short_term =
                          Append(@, "Add examples directory with working examples")],
              raised |-> FALSE]
        ELSE IF EntryAt(tree, examples_dir).is_file THEN [recs |-> recs, raised |-> TRUE]
        ELSE IF ~HasChildren(tree, examples_dir)
        THEN [recs |-> [recs EXCEPT !.short_term =
                          Append(@, "Add examples directory with working examples")],
              raised |-> FALSE]
        ELSE [recs |-> recs, raised |-> FALSE]

RequiredDocs ==
    << [doc |-> <<"A", "P", "I", ".", "m", "d">>, desc |-> "Create API documentation"],
       [doc |-> <<"A", "R", "C", "H", "I", "T", "E", "C", "T", "U", "R", "E", ".", "m", "d">>, desc |-> "Create Architecture documentation"],
       [doc |-> <<"C", "O", "N", "T", "R", "I", "B", "U", "T", "I", "N", "G", ".", "m", "d">>, desc |-> "Create Contributing guidelines"] >>

check_structure_dirs(recs, root, tree) ==
    LET docs_dir == Join(root, <<"d", "o", "c", "s">>)
        lacking == SelectSeq(RequiredDocs,
                             LAMBDA r : /\ ~Exists(tree, Join(docs_dir, r.doc))
                                        /\ ~Exists(tree, Join(root, r.doc)))
    IN  [recs EXCEPT
           !.short_term =
               @ \o (IF ~Exists(tree, docs_dir)
                     THEN <<"Create docs/ directory for detailed documentation">>
                     ELSE <<>>),
           !.long_term = @ \o [j \in 1..Len(lacking) |-> lacking[j].desc]]

IdleImprover ==
    [pc |-> "idle", root |-> <<>>, tree |-> <<>>,
     recommendations |-> [quick_wins |-> <<>>, short_term |-> <<>>, long_term |-> <<>>]]

\* DocsImprover(path) on a root whose walk yields tree
ImproverNew(root, tree) ==
    /\ improver' = [IdleImprover EXCEPT !.pc = "ready", !.root = root, !.tree = tree]
    /\ UNCHANGED <<reviewer, docs_analyzer, checker, ddd, runVars, dfsVars, scriptVars>>

\* analyze_and_suggest: the three checks in turn; a raise leaves it with the
\* recommendations added so far
AnalyzeAndSuggest ==
    /\ improver.pc = "ready"
    /\ LET root == improver.root
           tree == improver.tree
           r1 == check_readme(improver.recommendations, root, tree)
           r2 == check_examples(r1.recs, root, tree)
       IN  improver' =
             IF r1.raised THEN [improver EXCEPT !.recommendations = r1.recs, !.pc = "raised"]
             ELSE IF r2.raised
             THEN [improver EXCEPT !.recommendations = r2.recs, !.pc = "raised"]
             ELSE [improver EXCEPT
                     !.recommendations = check_structure_dirs(r2.recs, root, tree),
                     !.pc = "done"]
    /\ UNCHANGED <<reviewer, docs_analyzer, checker, ddd, runVars, dfsVars, scriptVars>>

(***************************************************************************)
(* DDDAnalyzer (code-analyzer/scripts/ddd-analyzer.py).  A pattern         *)
(* r'(\w+)Suffix' is its suffix; the third aggregate pattern, whose two    *)
(* suffixes are optional, is the empty suffix.  Class names are            *)
(* identifiers, so every character of a name is a word character.          *)
(***************************************************************************)
\* the aggregate patterns with the two suffixes only
AGGREGATE_PATTERNS_suffix_required == << <<"A", "g", "g", "r", "e", "g", "a", "t", "e">>, <<"R", "o", "o", "t">> >>

AGGREGATE_PATTERNS == << <<"A", "g", "g", "r", "e", "g", "a", "t", "e">>, <<"R", "o", "o", "t">>, <<>> >>

ENTITY_PATTERNS == << <<"E", "n", "t", "i", "t", "y">>, <<"M", "o", "d", "e", "l">>, <<"R", "e", "c", "o", "r", "d">>, <<"I", "t", "e", "m">> >>

VALUE_OBJECT_PATTERNS ==
    << <<"V", "a", "l", "u", "e", "O", "b", "j", "e", "c", "t">>, <<"V", "O">>, <<"V", "a", "l", "u", "e">>, <<"T", "y", "p", "e">>, <<"I", "d">>, <<"N", "a", "m", "e">>, <<"E", "m", "a", "i", "l">>, <<"A", "d", "d", "r", "e", "s", "s">>,
       <<"M", "o", "n", "e", "y">>, <<"A", "m", "o", "u", "n", "t">> >>

SERVICE_PATTERNS == << <<"D", "o", "m", "a", "i", "n", "S", "e", "r", "v", "i", "c", "e">>, <<"S", "e", "r", "v", "i", "c", "e">>, <<"A", "p", "p", "l", "i", "c", "a", "t", "i", "o", "n", "S", "e", "r", "v", "i", "c", "e">>, <<"A", "p", "p", "S", "e", "r", "v", "i", "c", "e">> >>

REPOSITORY_PATTERNS == << <<"R", "e", "p", "o", "s", "i", "t", "o", "r", "y">>, <<"R", "e", "p", "o">>, <<"D", "a", "o">>, <<"M", "a", "p", "p", "e", "r">> >>

EVENT_PATTERNS == << <<"E", "v", "e", "n", "t">>, <<"O", "c", "c", "u", "r", "r", "e", "d">>, <<"C", "r", "e", "a", "t", "e", "d">>, <<"U", "p", "d", "a", "t", "e", "d">>, <<"D", "e", "l", "e", "t", "e", "d">> >>

FACTORY_PATTERNS == << <<"F", "a", "c", "t", "o", "r", "y">>, <<"B", "u", "i", "l", "d", "e", "r">>, <<"C", "r", "e", "a", "t", "o", "r">> >>

\* re.search(r'(\w+)' + suffix, name, re.IGNORECASE): the suffix occurs in
\* the name after at least one character
SearchSuffix(suffix, name) ==
    LET low == Lower(name)
        tail == Lower(suffix)
    IN  \E k \in 2..(Len(name) + 1) :
            /\ k + Len(suffix) - 1 <= Len(name)
            /\ SubSeq(low, k, k + Len(suffix) - 1) = tail

\* _matches_pattern
matches_pattern(name, patterns) ==
    \E i \in 1..Len(patterns) : SearchSuffix(patterns[i], name)

AnyBase(bases, word) == \E i \in 1..Len(bases) : IsSubstring(word, Lower(bases[i]))

\* the tests of the if/elif chain of _analyze_python_class, in its order
DddTests(class) ==
    << [list |-> "aggregates",
        test |-> matches_pattern(class.name, AGGREGATE_PATTERNS)
                   \/ AnyBase(class.bases, <<"a", "g", "g", "r", "e", "g", "a", "t", "e">>)],
       [list |-> "entities",
        test |-> matches_pattern(class.name, ENTITY_PATTERNS)
                   \/ AnyBase(class.bases, <<"e", "n", "t", "i", "t", "y">>)],
       [list |-> "value_objects",
        test |-> matches_pattern(class.name, VALUE_OBJECT_PATTERNS)
                   \/ AnyBase(class.bases, <<"v", "a", "l", "u", "e">>) \/ AnyBase(class.bases, <<"v", "o">>)],
       [list |-> "domain_services",
        test |-> matches_pattern(class.name, SERVICE_PATTERNS)
                   /\ IsSubstring(<<"s", "e", "r", "v", "i", "c", "e">>, Lower(class.name))],
       [list |-> "repositories",
        test |-> matches_pattern(class.name, REPOSITORY_PATTERNS)],
       [list |-> "domain_events",
        test |-> matches_pattern(class.name, EVENT_PATTERNS)
                   \/ IsSubstring(<<"e", "v", "e", "n", "t">>, Lower(class.name))],
       [list |-> "factories",
        test |-> matches_pattern(class.name, FACTORY_PATTERNS)] >>

DddLists ==
    { "aggregates", "entities", "value_objects", "domain_services", "repositories",
      "domain_events", "factories" }

EmptyDddReport == [l \in DddLists |-> <<>>]

\* _analyze_python_class with every test an `if` of its own
analyze_python_class_independent_tests(rep, class, file_path) ==
    LET tests == DddTests(class)
    IN  [l \in DddLists |->
           IF \E i \in 1..Len(tests) : tests[i].list = l /\ tests[i].test
           THEN Append(rep[l], [name |-> class.name, file |-> file_path])
           ELSE rep[l]]

\* _analyze_python_class: the class goes to the list of the first test that holds
analyze_python_class(rep, class, file_path) ==
    LET tests == DddTests(class)
        hits == SelectSeq(Indices(tests), LAMBDA i : tests[i].test)
    IN  IF hits = <<>> THEN rep
        ELSE [rep EXCEPT ![tests[hits[1]].list] =
                               Append(@, [name |-> class.name, file |-> file_path])]

RECURSIVE DddWalk(_, _, _, _)
\* the loop of analyze_python over the classes of the tree, from the k-th on
DddWalk(rep, classes, k, rel_path) ==
    IF k > Len(classes) THEN rep
    ELSE DddWalk(analyze_python_class(rep, classes[k], rel_path), classes, k + 1,
                 rel_path)

IdleDdd == [pc |-> "idle", report |-> EmptyDddReport, analysed |-> <<>>]

\* DDDAnalyzer(path)
DddNew ==
    /\ ddd' = [IdleDdd EXCEPT !.pc = "ready"]
    /\ UNCHANGED <<reviewer, docs_analyzer, checker, improver, runVars, dfsVars, scriptVars>>

\* analyze_python on the file rel_path whose tree holds the given classes;
\* analysed keeps the classes passed to _analyze_python_class
DddAnalyzePython(rel_path, classes) ==
    /\ ddd' = [ddd EXCEPT
                 !.report = DddWalk(@, classes, 1, rel_path),
                 !.analysed = @ \o [k \in 1..Len(classes) |->
                                      [name |-> classes[k].name, bases |-> classes[k].bases,
                                       file |-> rel_path]],
                 !.pc = "done"]
    /\ UNCHANGED <<reviewer, docs_analyzer, checker, improver, runVars, dfsVars, scriptVars>>

\* the first list of the chain whose patterns the name matches, or "none"
FirstMatch(name, chain) ==
    LET hits == SelectSeq(Indices(chain),
                          LAMBDA i : matches_pattern(name, chain[i].patterns))
    IN  IF hits = <<>> THEN "none" ELSE chain[hits[1]].list

\* a name put on the list the chain gives it
Listed(rep, name, chain, rel_path) ==
    LET list == FirstMatch(name, chain)
    IN  IF list = "none" THEN rep
        ELSE [rep EXCEPT ![list] = Append(@, [name |-> name, file |-> rel_path])]

\* the if/elif chain of analyze_rust over a struct
RustChain ==
    << [list |-> "aggregates", patterns |-> AGGREGATE_PATTERNS],
       [list |-> "value_objects", patterns |-> VALUE_OBJECT_PATTERNS],
       [list |-> "domain_events", patterns |-> EVENT_PATTERNS] >>

\* the if/elif chain of analyze_typescript over a class or interface
TypescriptChain ==
    << [list |-> "aggregates", patterns |-> AGGREGATE_PATTERNS],
       [list |-> "entities", patterns |-> ENTITY_PATTERNS],
       [list |-> "value_objects", patterns |-> VALUE_OBJECT_PATTERNS],
       [list |-> "domain_events", patterns |-> EVENT_PATTERNS] >>

RECURSIVE ListAll(_, _, _, _, _)
\* the loop over the names found by re.finditer, from the k-th on
ListAll(rep, names, k, chain, rel_path) ==
    IF k > Len(names) THEN rep
    ELSE ListAll(Listed(rep, names[k], chain, rel_path), names, k + 1, chain, rel_path)

\* the traits analyze_rust lists as repositories
RepositoryTraits(traits, rel_path) ==
    LET repos == SelectSeq(traits, LAMBDA t : IsSubstring(<<"R", "e", "p", "o", "s", "i", "t", "o", "r", "y">>, t)
                                                \/ IsSubstring(<<"R", "e", "p", "o">>, t))
    IN  [k \in 1..Len(repos) |-> [name |-> repos[k], file |-> rel_path]]

\* analyze_rust on the structs and traits of a file
ddd_analyze_rust(rep, structs, traits, rel_path) ==
    [ListAll(rep, structs, 1, RustChain, rel_path) EXCEPT
       !.repositories = @ \o RepositoryTraits(traits, rel_path)]

\* analyze_typescript on the classes and interfaces of a file
ddd_analyze_typescript(rep, names, rel_path) ==
    ListAll(rep, names, 1, TypescriptChain, rel_path)

DddAnalyzeRust(rel_path, structs, traits) ==
    /\ ddd' = [ddd EXCEPT
                 !.report = ddd_analyze_rust(@, structs, traits, rel_path),
                 !.analysed = @ \o [k \in 1..Len(structs) |->
                                      [name |-> structs[k], bases |-> <<>>,
                                       file |-> rel_path]],
                 !.pc = "done"]
    /\ UNCHANGED <<reviewer, docs_analyzer, checker, improver, runVars, dfsVars, scriptVars>>

DddAnalyzeTypescript(rel_path, names) ==
    /\ ddd' = [ddd EXCEPT
                 !.report = ddd_analyze_typescript(@, names, rel_path),
                 !.analysed = @ \o [k \in 1..Len(names) |->
                                      [name |-> names[k], bases |-> <<>>,
                                       file |-> rel_path]],
                 !.pc = "done"]
    /\ UNCHANGED <<reviewer, docs_analyzer, checker, improver, runVars, dfsVars, scriptVars>>

(***************************************************************************)
(* JavaCodeReviewer.generate_report (java-code-review/scripts/review.py):  *)
(* the score and the table of the three severities that the report shows.  *)
(***************************************************************************)
\* the score without the clamp
ReportScore_no_clamp(issues) ==
    100 - Len(issues.critical) * 10 - Len(issues.major) * 5 - Len(issues.minor) * 2

\* score = 100 - 10 critical - 5 major - 2 minor; score = max(0, min(100, score))
ReportScore(issues) ==
    Max(0, Min(100, 100 - Len(issues.critical) * 10 - Len(issues.major) * 5
                        - Len(issues.minor) * 2))

\* len(self.issues[severity]) * 100 // max(1, total_issues)
ReportShare(count, total_issues) == (count * 100) \div Max(1, total_issues)

\* the header of the report: the counted issues, the score and the table
generate_report(r) ==
    LET total_issues == Len(r.issues.critical) + Len(r.issues.major) + Len(r.issues.minor)
    IN  [files |-> r.stats.files,
         lines |-> r.stats.lines,
         total_issues |-> total_issues,
         score |-> ReportScore(r.issues),
         critical |-> [count |-> Len(r.issues.critical),
                       share |-> ReportShare(Len(r.issues.critical), total_issues)],
         major |-> [count |-> Len(r.issues.major),
                    share |-> ReportShare(Len(r.issues.major), total_issues)],
         minor |-> [count |-> Len(r.issues.minor),
                    share |-> ReportShare(Len(r.issues.minor), total_issues)]]

\* generate_report(output) on the reviewer: the report is written, the
\* reviewer is left as it was
ReviewerReport ==
    /\ reviewer.pc = "ready"
    /\ Len(review_report) < MaxRuns
    /\ review_report' = Append(review_report, generate_report(reviewer))
    /\ UNCHANGED <<architect, quality, runVars, dfsVars, toolVars>>

(***************************************************************************)
(* optimize-solution.py (solution-architect/scripts).  A document is a     *)
(* sequence of tokens: the characters "#", "|", " " and "\n" one by one,   *)
(* and one token for each word or marker that the script looks for and for *)
(* each run of other text.  A word that the script looks for inside        *)
(* another one is two tokens: "task" "breakdown" is the chapter name of    *)
(* which "task" is the first half, "success" "metric" the section name of  *)
(* which "metric" is the second half.                                      *)
(***************************************************************************)
Hashes == <<"#", "#">>

Bar == <<"|">>

Mermaid == <<"fence-mermaid">>

TaskBreakdown == <<"task", "breakdown">>

SystemArchitecture == <<"system architecture">>

\* required_chapters of evaluate_solution
RequiredChapters ==
    << <<"requirement background">>, <<"product goal">>, <<"system goal">>,
       SystemArchitecture, <<"business flow">>, <<"fund flow">>, <<"data flow">>,
       <<"data model">>, <<"API design">>, <<"table design">>, <<"impact analysis">>,
       TaskBreakdown >>

\* diagram_patterns of evaluate_solution
DiagramPatterns ==
    { Mermaid, <<"graph", " ">>, <<"sequenceDiagram">>, <<"erDiagram">>, <<"flowchart">> }

\* sum(scores.values()) // len(scores), over the six scores set so far
OverallOf(scores) ==
    (scores.completeness + scores.accuracy + scores.feasibility + scores.clarity
       + scores.risk_management + scores.cost_control) \div 6

evaluate_solution(content) ==
    LET found_chapters == SelectSeq(RequiredChapters, LAMBDA ch : IsSubstring(ch, content))
        has_diagrams == \E p \in DiagramPatterns : IsSubstring(p, content)
        scores == [completeness |-> (Len(found_chapters) * 100) \div 12,
                   accuracy |-> 0,
                   feasibility |-> 0,
                   clarity |-> IF has_diagrams THEN 0 ELSE 0 - 20,
                   risk_management |-> 0,
                   cost_control |-> 0]
        critical == IF Len(found_chapters) < 12 THEN << "missing chapters" >> ELSE <<>>
        major == (IF has_diagrams THEN <<>> ELSE << "no diagrams" >>)
                 \o (IF /\ IsSubstring(TaskBreakdown, content)
                        /\ ~IsSubstring(<<"DEV-">>, content)
                        /\ ~IsSubstring(<<"task">>, content)
                     THEN << "task breakdown not detailed" >> ELSE <<>>)
        minor == (IF IsSubstring(<<"fence-sql">>, content) THEN <<>> ELSE << "no SQL" >>)
                 \o (IF \/ IsSubstring(<<"fence-http">>, content)
                        \/ IsSubstring(<<"POST">>, content)
                        \/ IsSubstring(<<"GET">>, content)
                     THEN <<>> ELSE << "no API" >>)
                 \o (IF IsSubstring(Bar, content) THEN <<>> ELSE << "no table" >>)
    IN  [scores |-> [completeness |-> scores.completeness, accuracy |-> scores.accuracy,
                     feasibility |-> scores.feasibility, clarity |-> scores.clarity,
                     risk_management |-> scores.risk_management,
                     cost_control |-> scores.cost_control,
                     overall |-> OverallOf(scores)],
         issues |-> [critical |-> critical, major |-> major, minor |-> minor],
         found_chapters |-> found_chapters]

\* '## n. chapter'
SectionHeader(number, chapter) == Hashes \o <<" ", number, " ">> \o chapter

\* '### n.m title' and the blank line after it
SubHeader == <<"#", "#", "#", " ", "text", "\n", "\n">>

\* required_sections of optimize_solution, in the order of the dict
RequiredSections ==
    << [section |-> SectionHeader("1.", <<"requirement background">>),
        template |-> SubHeader \o <<"text", "\n", "\n">> \o SubHeader \o <<"text">>],
       [section |-> SectionHeader("2.", <<"product goal">>),
        template |-> SubHeader \o <<"text">>],
       [section |-> SectionHeader("3.", <<"system goal">>),
        template |-> SubHeader \o <<"|", " ", "metric", " ", "|", " ", "text", " ", "|", "\n",
                                    "|", "text", "|", "text", "|", "\n",
                                    "|", " ", "text", " ", "|", " ", "text", " ", "|">>],
       [section |-> SectionHeader("4.", SystemArchitecture),
        template |-> SubHeader \o Mermaid \o <<"\n", "graph", " ", "text", "\n", "fence">>],
       [section |-> SectionHeader("5.", <<"business flow">>),
        template |-> SubHeader \o Mermaid \o <<"\n", "flowchart", " ", "text", "\n", "fence">>],
       [section |-> SectionHeader("8.", <<"data model">>),
        template |-> SubHeader \o Mermaid
                     \o <<"\n", "erDiagram", "\n", "text", " ", "|", "|", "text", "\n",
                          "fence">>],
       [section |-> SectionHeader("9.", <<"API design">>),
        template |-> SubHeader \o <<"fence-http", "\n", "POST", " ", "text", "\n", "fence",
                                    "\n", "\n", "fence-json", "\n", "text", "\n", "fence">>],
       [section |-> SectionHeader("10.", <<"table design">>),
        template |-> SubHeader \o <<"fence-sql", "\n", "text", "\n", "fence">>],
       [section |-> SectionHeader("12.", TaskBreakdown),
        template |-> <<"#", "#", "#", " ", "text", "task", "\n", "\n",
                       "|", " ", "task", " ", "|", " ", "text", " ", "|", " ", "text", " ",
                       "|", "\n", "|", "text", "|", "text", "|", "text", "|", "\n",
                       "|", " ", "DEV-", "text", " ", "|", " ", "text", " ", "|", " ",
                       "text", " ", "|">>] >>

\* arch_diagram
ArchDiagram == <<"\n">> \o Mermaid \o <<"\n", "graph", " ", "text", "\n", "fence", "\n">>

\* task_table
TaskTable ==
    <<"\n", "|", " ", "task", " ", "text", " ", "|", " ", "task", "text", " ", "|", "\n",
      "|", "text", "|", "text", "|", "\n",
      "|", " ", "DEV-", "text", " ", "|", " ", "text", " ", "|", "\n">>

\* risk_section
RiskSection ==
    <<"\n">> \o Hashes
    \o <<" ", "risk", "text", "\n", "\n", "|", " ", "risk", "text", " ", "|", " ", "text",
         " ", "|", "\n", "|", "text", "|", "text", "|", "\n",
         "|", " ", "text", "risk", " ", "|", " ", "text", " ", "|", "\n">>

\* metrics_section
MetricsSection ==
    <<"\n">> \o Hashes
    \o <<" ", "success", "metric", "\n", "\n", "|", " ", "metric", "text", " ", "|", " ",
         "metric", "text", " ", "|", "\n", "|", "text", "|", "text", "|", "\n",
         "|", " ", "text", "metric", " ", "|", " ", "text", " ", "|", "\n">>

\* the positions at which p occurs in s
Occurrences(p, s) ==
    { k \in 1..(Len(s) - Len(p) + 1) : \A j \in 1..Len(p) : s[k + j - 1] = p[j] }

\* the least position at or after k at which p occurs in s, or 0
FindFrom(p, s, k) ==
    LET at == { i \in Occurrences(p, s) : i >= k }
    IN  IF at = {} THEN 0 ELSE CHOOSE i \in at : \A j \in at : i <= j

RECURSIVE ReplaceFrom(_, _, _, _)
\* s.replace(old, new) from position k on: the occurrences of old that do
\* not overlap, from the left
ReplaceFrom(s, old, new, k) ==
    LET at == FindFrom(old, s, k)
    IN  IF at = 0 THEN SubSeq(s, k, Len(s))
        ELSE SubSeq(s, k, at - 1) \o new \o ReplaceFrom(s, old, new, at + Len(old))

Replace(s, old, new) == ReplaceFrom(s, old, new, 1)

\* s.split(sep)[1].split(stop)[0], for s that holds sep: what lies between
\* the first sep and the next sep or stop
AfterFirst(s, sep, stop) ==
    LET from == FindFrom(sep, s, 1) + Len(sep)
        next_sep == FindFrom(sep, s, from)
        next_stop == FindFrom(stop, s, from)
        ends == { e \in {next_sep, next_stop} : e # 0 }
        to == IF ends = {} THEN Len(s) + 1 ELSE CHOOSE e \in ends : \A x \in ends : e <= x
    IN  SubSeq(s, from, to - 1)

RECURSIVE AddMissing(_, _)
\* the loop over required_sections from the k-th on: a section whose
\* header is not in the document is appended with its template
AddMissing(optimized, k) ==
    IF k > Len(RequiredSections) THEN optimized
    ELSE LET s == RequiredSections[k]
         IN  AddMissing(IF IsSubstring(s.section, optimized) THEN optimized
                        ELSE optimized \o <<"\n", "\n">> \o s.section \o <<"\n", "\n">>
                                       \o s.template \o <<"\n">>,
                        k + 1)

\* the step of the levels standard and deep on the architecture diagram
AddDiagram(optimized) ==
    IF IsSubstring(SystemArchitecture, optimized) /\ ~IsSubstring(Mermaid, optimized)
    THEN LET header == SectionHeader("4.", SystemArchitecture)
         IN  Replace(optimized, header, header \o <<"\n">> \o ArchDiagram)
    ELSE optimized

\* the step of the levels standard and deep on the task table
AddTaskTable(optimized) ==
    IF /\ IsSubstring(TaskBreakdown, optimized)
       /\ ~IsSubstring(Bar, AfterFirst(optimized, TaskBreakdown, Hashes))
    THEN LET header == SectionHeader("12.", TaskBreakdown)
         IN  Replace(optimized, header, header \o <<"\n">> \o TaskTable)
    ELSE optimized

\* the steps of the level deep
AddRiskAndMetrics(optimized) ==
    LET risk == IF IsSubstring(<<"risk">>, optimized) THEN optimized
                ELSE optimized \o RiskSection
        header == SectionHeader("2.", <<"product goal">>)
    IN  IF ~IsSubstring(<<"success", "metric">>, risk) /\ ~IsSubstring(<<"metric">>, risk)
        THEN Replace(risk, header, header \o <<"\n">> \o MetricsSection)
        ELSE risk

Levels == {"light", "standard", "deep"}

optimize_solution(content, level) ==
    LET added == AddMissing(content, 1)
        improved == IF level \in {"standard", "deep"}
                    THEN AddTaskTable(AddDiagram(added)) ELSE added
    IN  IF level = "deep" THEN AddRiskAndMetrics(improved) ELSE improved

\* main on the input file content: the evaluation and the optimized file
main(content, level) ==
    [content |-> content, level |-> level,
     evaluation |-> evaluate_solution(content),
     optimized |-> optimize_solution(content, level)]

\* the script run on a document
ArchitectMain(content, level) ==
    /\ architect = <<>>
    /\ architect' = << main(content, level) >>
    /\ UNCHANGED <<review_report, quality, runVars, dfsVars, toolVars>>

\* the script run again, on the file it wrote, at the same level
ArchitectAgain ==
    /\ architect # <<>>
    /\ Len(architect) < MaxRuns
    /\ LET last == architect[Len(architect)]
       IN  architect' = Append(architect, main(last.optimized, last.level))
    /\ UNCHANGED <<review_report, quality, runVars, dfsVars, toolVars>>

(***************************************************************************)
(* The DocsAnalyzer of docs-improver/scripts/docs-improver.py: the         *)
(* inventory that scan_documentation takes and the quality report that     *)
(* assess_quality computes from it.  Contents are those of DocContent.     *)
(***************************************************************************)
EmptyInventory ==
    [files |-> <<>>, missing_docs |-> <<>>, readme |-> <<>>, api_docs |-> <<>>,
     architecture_docs |-> <<>>, deployment_guide |-> <<>>, dev_guide |-> <<>>,
     changelog |-> <<>>, contributing |-> <<>>]

EmptyDocQualityReport ==
    [overall_score |-> 0, completeness_score |-> 0, accuracy_score |-> 0,
     clarity_score |-> 0, structure_score |-> 0, maintainability_score |-> 0,
     critical_issues |-> <<>>,
     recommendations |-> [quick_wins |-> <<>>, short_term |-> <<>>, long_term |-> <<>>]]

\* the first component of a path relative to the root
FirstPart(rel) == SplitFirst(rel, <<"/">>)

\* the files scan_documentation passes to _analyze_file, in walk order: the
\* files of the root directory, and the documentation files below a
\* directory docs, documentation or doc of the root
InventoryEntries(root, tree) ==
    SelectSeq(tree,
      LAMBDA e : LET rel == RelPath(root, e.path)
                 IN  /\ e.is_file
                     /\ \/ FirstPart(rel) = rel
                        \/ /\ FirstPart(rel) \in { <<"d", "o", "c", "s">>, <<"d", "o", "c", "u", "m", "e", "n", "t", "a", "t", "i", "o", "n">>, <<"d", "o", "c">> }
                           /\ PathSuffix(e.path) \in Range(DocPatterns))

\* the file_info of _analyze_file; a file that cannot be read keeps the
\* entries set before the read
FileInfo(root, e) ==
    [path |-> RelPath(root, e.path),
     name |-> PathName(e.path),
     entry |-> e,
     has_code_examples |-> /\ e.readable
                           /\ \/ IsSubstring(Fence, e.content.text)
                              \/ IsSubstring(<<" ", " ", " ", " ">>, e.content.text)]

RECURSIVE Categorize(_, _, _)
\* the if/elif chain at the end of _analyze_file, over infos[k..]
Categorize(inv, infos, k) ==
    IF k > Len(infos) THEN inv
    ELSE LET f == infos[k]
             next ==
               CASE f.name \in { <<"R", "E", "A", "D", "M", "E", ".", "m", "d">>, <<"R", "E", "A", "D", "M", "E", ".", "r", "s", "t">>, <<"R", "E", "A", "D", "M", "E", ".", "t", "x", "t">> } ->
                      [inv EXCEPT !.readme = f.path]
                 [] f.name \in { <<"C", "H", "A", "N", "G", "E", "L", "O", "G", ".", "m", "d">>, <<"H", "I", "S", "T", "O", "R", "Y", ".", "m", "d">>, <<"N", "E", "W", "S", ".", "m", "d">> } ->
                      [inv EXCEPT !.changelog = f.path]
                 [] f.name \in { <<"C", "O", "N", "T", "R", "I", "B", "U", "T", "I", "N", "G", ".", "m", "d">>, <<"C", "O", "N", "T", "R", "I", "B", "U", "T", "E", ".", "m", "d">> } ->
                      [inv EXCEPT !.contributing = f.path]
                 [] f.name \in { <<"A", "P", "I", ".", "m", "d">>, <<"a", "p", "i", ".", "m", "d">>, <<"A", "P", "I", ".", "r", "s", "t">> } ->
                      [inv EXCEPT !.api_docs = f.path]
                 [] f.name \in { <<"A", "R", "C", "H", "I", "T", "E", "C", "T", "U", "R", "E", ".", "m", "d">>, <<"a", "r", "c", "h", "i", "t", "e", "c", "t", "u", "r", "e", ".", "m", "d">>, <<"D", "E", "S", "I", "G", "N", ".", "m", "d">> } ->
                      [inv EXCEPT !.architecture_docs = f.path]
                 [] f.name \in { <<"D", "E", "P", "L", "O", "Y", "M", "E", "N", "T", ".", "m", "d">>, <<"d", "e", "p", "l", "o", "y", "m", "e", "n", "t", ".", "m", "d">>, <<"D", "E", "P", "L", "O", "Y", ".", "m", "d">>, <<"d", "e", "p", "l", "o", "y", ".", "m", "d">> } ->
                      [inv EXCEPT !.deployment_guide = f.path]
                 [] f.name \in { <<"I", "N", "S", "T", "A", "L", "L", ".", "m", "d">>, <<"i", "n", "s", "t", "a", "l", "l", ".", "m", "d">>, <<"I", "N", "S", "T", "A", "L", "L", "A", "T", "I", "O", "N", ".", "m", "d">>, <<"S", "E", "T", "U", "P", ".", "m", "d">> } ->
                      [inv EXCEPT !.dev_guide = f.path]
                 [] OTHER -> inv
         IN  Categorize([next EXCEPT !.files = Append(@, f)], infos, k + 1)

ApiPatterns ==
    { <<"@", "a", "p", "p", ".", "r", "o", "u", "t", "e">>, <<"@", "r", "o", "u", "t", "e", "r", ".">>, <<"d", "e", "f", " ", "a", "p", "i", "_">>, <<"c", "l", "a", "s", "s", " ", "A", "p", "i", "C", "o", "n", "t", "r", "o", "l", "l", "e", "r">>, <<"F", "a", "s", "t", "A", "P", "I">>, <<"F", "l", "a", "s", "k">>,
      <<"E", "x", "p", "r", "e", "s", "s">> }

CodeSuffixes == { <<".", "p", "y">>, <<".", "j", "s">>, <<".", "t", "s">>, <<".", "j", "a", "v", "a">>, <<".", "g", "o">>, <<".", "r", "s">> }

detect_api_code(tree) ==
    \E i \in 1..Len(tree) :
       /\ tree[i].is_file
       /\ tree[i].readable
       /\ PathSuffix(tree[i].path) \in CodeSuffixes
       /\ AnyIn(ApiPatterns, tree[i].content.text)

\* the items of the root directory, and those of them that are directories
TopItems(root, tree) == { FirstPart(RelPath(root, tree[i].path)) : i \in 1..Len(tree) }

TopDirs(root, tree) ==
    { FirstPart(RelPath(root, tree[i].path)) :
        i \in { j \in 1..Len(tree) :
                  \/ ~tree[j].is_file
                  \/ FirstPart(RelPath(root, tree[j].path)) # RelPath(root, tree[j].path) } }

detect_complex_architecture(root, tree) ==
    \/ TopDirs(root, tree) \cap { <<"s", "r", "c">>, <<"a", "p", "p">>, <<"s", "e", "r", "v", "i", "c", "e", "s">>, <<"m", "o", "d", "u", "l", "e", "s">> } # {}
    \/ Cardinality(TopItems(root, tree)) > 10

identify_missing_docs(inv, root, tree) ==
    [inv EXCEPT !.missing_docs =
        @ \o (IF inv.readme = <<>> THEN << <<"R", "E", "A", "D", "M", "E", ".", "m", "d">> >> ELSE <<>>)
          \o (IF detect_api_code(tree) /\ inv.api_docs = <<>> THEN << <<"A", "P", "I", ".", "m", "d">> >> ELSE <<>>)
          \o (IF detect_complex_architecture(root, tree) /\ inv.architecture_docs = <<>>
              THEN << <<"A", "R", "C", "H", "I", "T", "E", "C", "T", "U", "R", "E", ".", "m", "d">> >> ELSE <<>>)]

scan_documentation(inv, root, tree) ==
    LET found_files == InventoryEntries(root, tree)
        infos == [k \in 1..Len(found_files) |-> FileInfo(root, found_files[k])]
    IN  identify_missing_docs(Categorize(inv, infos, 1), root, tree)

\* len(content.split('\n')[0]): the first line, which the prose follows
\* when the text has one line
FirstLineLen(c) ==
    IF IsSubstring(<<"\n">>, c.text) THEN Len(SplitFirst(c.text, <<"\n">>))
    ELSE DocLen(c)

\* how many of the checks hold
Passed(checks) == Cardinality({ i \in 1..Len(checks) : checks[i] })

\* int(.30 completeness + .10 accuracy + .25 clarity + .20 structure
\* + .15 maintainability), which on the scores the checks can give is the
\* integer division below
WeightedOverall(s) ==
    (30 * s.completeness + 10 * s.accuracy + 25 * s.clarity + 20 * s.structure
       + 15 * s.maintainability) \div 100

\* the scores of _assess_file_quality, without the overall score
FileScores(c) ==
    LET low == Lower(c.text)
        hashes == Count(<<"#">>, c.text)
    IN  [completeness |->
             Passed(<< IsSubstring(<<"#">>, c.text) \/ FirstLineLen(c) < 100,
                       DocLen(c) > 200,
                       IsSubstring(<<"i", "n", "s", "t", "a", "l", "l">>, low) \/ IsSubstring(<<"s", "e", "t", "u", "p">>, low),
                       IsSubstring(<<"u", "s", "a", "g", "e">>, low) \/ IsSubstring(<<"e", "x", "a", "m", "p", "l", "e">>, low),
                       IsSubstring(Fence, c.text) >>) * 20,
         clarity |->
             Passed(<< hashes >= 3,
                       \/ IsSubstring(<<"-">>, c.text)
                       \/ IsSubstring(<<"*">>, c.text)
                       \/ IsSubstring(<<"1", ".">>, c.text),
                       200 < DocLen(c) /\ DocLen(c) < 50000 >>) * 33,
         structure |->
             (IF hashes >= 5 THEN 40 ELSE 0)
             + (IF IsSubstring(<<"#", "#", " ">>, c.text) THEN 30 ELSE 0)
             + (IF IsSubstring(<<"#", "#", "#", " ">>, c.text) THEN 30 ELSE 0),
         maintainability |->
             Passed(<< \/ IsSubstring(<<"#", "#", " ", "C", "o", "n", "t", "e", "n", "t", "s">>, c.text)
                       \/ IsSubstring(<<"#", "#", " ", "T", "a", "b", "l", "e">>, c.text)
                       \/ IsSubstring(<<"[", "t", "o", "c", "]">>, low),
                       IsSubstring(<<"h", "t", "t", "p">>, c.text) \/ IsSubstring(<<"]", "(">>, c.text),
                       DocLen(c) < 30000 >>) * 33,
         accuracy |-> 70]

\* _assess_file_quality: the scores of the file; a file that cannot be
\* read scores 0 throughout
assess_file_quality(f) ==
    IF ~f.entry.readable THEN ZeroScores
    ELSE LET s == FileScores(f.entry.content)
         IN  [overall |-> WeightedOverall(s), completeness |-> s.completeness,
              accuracy |-> s.accuracy, clarity |-> s.clarity, structure |-> s.structure,
              maintainability |-> s.maintainability]

\* the critical issue _assess_file_quality records for a file with neither
\* title nor description
MissingBasics(f) ==
    /\ f.entry.readable
    /\ ~(IsSubstring(<<"#">>, f.entry.content.text) \/ FirstLineLen(f.entry.content) < 100)
    /\ ~(DocLen(f.entry.content) > 200)

quality_recommendations(rep, inv) ==
    [rep EXCEPT
       !.recommendations.quick_wins =
           @ \o (IF rep.completeness_score < 60
                 THEN << "Add project description and badges to README" >> ELSE <<>>)
             \o (IF ~\E k \in 1..Len(inv.files) : inv.files[k].has_code_examples
                 THEN << "Add code examples to show usage" >> ELSE <<>>),
       !.recommendations.short_term =
           @ \o (IF inv.missing_docs # <<>> THEN << "Create missing docs" >> ELSE <<>>)
             \o (IF rep.structure_score < 60
                 THEN << "Improve document structure with clear sections" >> ELSE <<>>),
       !.recommendations.long_term =
           @ \o << "Set up automated documentation generation",
                   "Create architecture diagrams",
                   "Establish documentation review process" >>]

\* assess_quality(file_path) on the quality report rep; file_path <<>> is
\* the call without a file
assess_quality(rep, inv, file_path) ==
    LET files_to_assess ==
            IF file_path # <<>> THEN SelectSeq(inv.files, LAMBDA f : f.path = file_path)
            ELSE inv.files
        n == Len(files_to_assess)
    IN  IF n = 0
        THEN [rep EXCEPT
                !.overall_score = 0,
                !.critical_issues = Append(@, [type |-> "no_documentation", location |-> <<>>])]
        ELSE LET scores == [k \in 1..n |-> assess_file_quality(files_to_assess[k])]
                 basics == SelectSeq(files_to_assess, MissingBasics)
             IN  quality_recommendations(
                   [rep EXCEPT
                      !.critical_issues =
                          @ \o [k \in 1..Len(basics) |->
                                  [type |-> "missing_basics", location |-> basics[k].path]],
                      !.overall_score = SumOf(scores, "overall", 1) \div n,
                      !.completeness_score = SumOf(scores, "completeness", 1) \div n,
                      !.accuracy_score = SumOf(scores, "accuracy", 1) \div n,
                      !.clarity_score = SumOf(scores, "clarity", 1) \div n,
                      !.structure_score = SumOf(scores, "structure", 1) \div n,
                      !.maintainability_score = SumOf(scores, "maintainability", 1) \div n],
                   inv)

IdleQuality ==
    [pc |-> "idle", root |-> <<>>, tree |-> <<>>, inventory |-> EmptyInventory,
     quality_report |-> EmptyDocQualityReport, scanned |-> 0, assessed |-> <<>>]

\* DocsAnalyzer(path) of docs-improver.py on a root whose walk yields tree
QualityNew(root, tree) ==
    /\ quality' = [IdleQuality EXCEPT !.pc = "ready", !.root = root, !.tree = tree]
    /\ UNCHANGED <<review_report, architect, runVars, dfsVars, toolVars>>

QualityScan ==
    /\ quality.pc = "ready"
    /\ quality.scanned < MaxRuns
    /\ quality' = [quality EXCEPT
                     !.inventory = scan_documentation(@, quality.root, quality.tree),
                     !.scanned = @ + 1]
    /\ UNCHANGED <<review_report, architect, runVars, dfsVars, toolVars>>

\* assess_quality; assessed keeps what each call left: the file asked for,
\* the number of files assessed and the report
QualityAssess(file_path) ==
    /\ quality.pc = "ready"
    /\ Len(quality.assessed) < MaxRuns
    /\ LET r == assess_quality(quality.quality_report, quality.inventory, file_path)
           n == Len(IF file_path # <<>>
                    THEN SelectSeq(quality.inventory.files, LAMBDA f : f.path = file_path)
                    ELSE quality.inventory.files)
       IN  quality' = [quality EXCEPT
                         !.quality_report = r,
                         !.assessed = Append(@, [file_path |-> file_path, files |-> n,
                                                 report |-> r])]
    /\ UNCHANGED <<review_report, architect, runVars, dfsVars, toolVars>>


(***************************************************************************)
(* The inputs: trees of files, exclusion lists and file contents.          *)
(***************************************************************************)
Content(ok, lines, nodes) == [ok |-> ok, lines |-> lines, nodes |-> nodes]

File(path, is_file, readable, content) ==
    [path |-> path, is_file |-> is_file, readable |-> readable, content |-> content,
     lines |-> content.lines]

\* a file ast.parse rejects
PySyntaxError == Content(FALSE, 1, <<>>)

\* def main():
\*     if not ok: raise ...
\*     helper()
PyMain ==
    Content(TRUE, 3,
      << Node("FunctionDef", 0, <<"m", "a", "i", "n">>, <<>>),
         Node("If", 1, <<>>, <<"i", "f", " ", "n", "o", "t", " ", "o", "k", ":", " ", "r", "a", "i", "s", "e">>),
         Node("Call", 1, <<"h", "e", "l", "p", "e", "r">>, <<>>) >>)

\* import os.path
\* class UserModel:
\*     def save(self):
\*         for x in xs: ...
PyModel ==
    Content(TRUE, 4,
      << Node("Import", 0, <<"o", "s", ".", "p", "a", "t", "h">>, <<>>),
         Node("ClassDef", 0, <<"U", "s", "e", "r", "M", "o", "d", "e", "l">>, <<>>),
         Node("FunctionDef", 2, <<"s", "a", "v", "e">>, <<>>),
         Node("For", 3, <<>>, <<>>) >>)

JsView ==
    Content(TRUE, 4,
      << Node("class", 0, <<"V", "i", "e", "w">>, <<>>),
         Node("function", 0, <<"r", "u", "n">>, <<>>),
         Node("import", 0, <<"a", "x", "i", "o", "s", "/", "l", "i", "b">>, <<>>),
         Node("import", 0, <<".", "/", "l", "o", "c", "a", "l">>, <<>>) >>)

RsData ==
    Content(TRUE, 4,
      << Node("struct", 0, <<"D", "a", "t", "a">>, <<>>),
         Node("fn", 0, <<"n", "e", "w">>, <<>>),
         Node("use", 0, <<"s", "e", "r", "d", "e", ":", ":", "j", "s", "o", "n">>, <<>>),
         Node("match", 0, <<"r">>, <<"E", "r", "r", "(", "e", ")", " ", "=", ">", " ", "0">>) >>)

PlainText == Content(TRUE, 1, <<>>)

\* a Java file: its text holds what the JavaScript patterns would match
\* import util;
\* class Order { ... }
JavaOrder ==
    Content(TRUE, 3,
      << Node("import", 0, <<"u", "t", "i", "l">>, <<>>),
         Node("class", 0, <<"O", "r", "d", "e", "r">>, <<>>) >>)

RootDirs == { <<"/", "x">>, <<"/", "x", "/", "v", "e", "n", "d", "o", "r">> }

TreeEntries(root) ==
    { File(Join(root, <<"y", ".", "p", "y">>), TRUE, r, c) :
        r \in BOOLEAN, c \in {PySyntaxError, PyMain, PyModel} }
    \cup { File(Join(root, <<"y", ".", "g", "o">>), TRUE, r, PlainText) : r \in BOOLEAN }
    \cup { File(Join(root, <<"v", "e", "n", "d", "o", "r", "/", "y", ".", "p", "y">>), TRUE, TRUE, PyMain),
           File(Join(root, <<"y", ".", "m", "d">>), TRUE, TRUE, PlainText),
           File(Join(root, <<"y">>), TRUE, TRUE, PlainText),
           File(Join(root, <<".", "p", "y">>), TRUE, TRUE, PyMain),
           File(Join(root, <<"y", ".", "r", "s">>), TRUE, TRUE, RsData),
           File(Join(root, <<"y", ".", "j", "s">>), TRUE, TRUE, JsView),
           File(Join(root, <<"y", ".", "j", "a", "v", "a">>), TRUE, TRUE, JavaOrder),
           File(Join(root, <<"y", ".", "s", "q", "l">>), TRUE, TRUE, PlainText),
           File(Join(root, <<"z", ".", "p", "y">>), FALSE, TRUE, PlainText) }

RootFiles ==
    { File(<<"/", "x", "/", "y", ".", "p", "y">>, TRUE, TRUE, PyMain), File(<<"/", "x", "/", "y", ".", "m", "d">>, TRUE, TRUE, PlainText),
      File(<<"/", "x", "/", "v", "e", "n", "d", "o", "r", "/", "y", ".", "p", "y">>, TRUE, TRUE, PyMain) }

\* the lists the caller passes as exclude_patterns; <<>> is None or []
GivenExcludes ==
    { <<>>, << <<"v", "e", "n", "d", "o", "r">> >>, << <<".", "p", "y">> >>, << <<"y", ".", "r", "s">>, <<"g", "o">> >> }

DistinctPaths(s) == \A i, j \in 1..Len(s) : s[i].path = s[j].path => i = j

\* before the analyzer is constructed
Init ==
    /\ root_path = <<>>
    /\ root_is_file = FALSE
    /\ fs = <<>>
    /\ exclude_patterns = <<>>
    /\ files = <<>>
    /\ functions = <<>>
    /\ data_models = <<>>
    /\ business_rules = <<>>
    /\ external_deps = {}
    /\ report = EmptyReport
    /\ warned = <<>>
    /\ idx = 0
    /\ pc = "new"
    /\ calls = 0
    /\ returned = <<>>
    /\ modules = <<>>
    /\ dependencies = <<>>
    /\ visited = {}
    /\ rec_stack = {}
    /\ dfs_path = <<>>
    /\ todo = <<>>
    /\ found = <<>>
    /\ cycles = <<>>
    /\ dpc = "idle"
    /\ reviewer = IdleReviewer
    /\ docs_analyzer = IdleDocsAnalyzer
    /\ checker = IdleChecker
    /\ improver = IdleImprover
    /\ ddd = IdleDdd
    /\ review_report = <<>>
    /\ architect = <<>>
    /\ quality = IdleQuality

\* DeepCodeAnalyzer(path, exclude_patterns) on a root whose walk yields tree
New(path, isfile, tree, given) ==
    /\ root_path' = path
    /\ root_is_file' = isfile
    /\ fs' = tree
    /\ exclude_patterns' = InitExcludePatterns(given)
    /\ files' = <<>>
    /\ functions' = <<>>
    /\ data_models' = <<>>
    /\ business_rules' = <<>>
    /\ external_deps' = {}
    /\ report' = EmptyReport
    /\ calls' = 0
    /\ pc' = "start"
    /\ UNCHANGED <<warned, idx, returned, dfsVars, toolVars, scriptVars>>

\* the analyzer constructed on a directory or on a single file
Construct ==
    /\ pc = "new"
    /\ \E given \in GivenExcludes :
          \/ \E root \in RootDirs, k \in 0..MaxFiles :
                \E tree \in [1..k -> TreeEntries(root)] :
                   DistinctPaths(tree) /\ New(root, FALSE, tree, given)
          \/ \E f \in RootFiles : New(f.path, TRUE, <<f>>, given)

\* a second process: a new analyzer on the same tree, with the same patterns
ConstructAgain ==
    /\ pc = "done"
    /\ Len(returned) < MaxRuns
    /\ New(root_path, root_is_file, fs, exclude_patterns)

Next == Construct \/ Run \/ RunAgain \/ ConstructAgain

Spec == Init /\ [][Next]_vars

(***************************************************************************)
(* Python files as inputs of the function analysis: every small syntax     *)
(* tree over function definitions, decision points and boolean operators,  *)
(* and functions long enough to pass fifty decision points.                *)
(***************************************************************************)
MaxEditNodes == 2

AstLabels ==
    { <<"FunctionDef", <<"f">>>>, <<"FunctionDef", <<"m", "a", "i", "n">>>>, <<"If", <<>>>>,
      <<"For", <<>>>>, <<"While", <<>>>>, <<"ExceptHandler", <<>>>>,
      <<"BoolOp", <<>>>> }

\* parents of n nodes listed breadth-first: before the child, and in order
AstShapes(n) ==
    { p \in [1..n -> 0..(n - 1)] :
        /\ \A i \in 1..n : p[i] < i
        /\ \A i, j \in 1..n : i < j => p[i] <= p[j] }

AstText(kind) == IF kind = "If" THEN <<"i", "f", " ", "x", ":">> ELSE <<>>

\* the tree of the given shape and labels
Ast(p, l) == [i \in 1..Len(p) |-> Node(l[i][1], p[i], l[i][2], AstText(l[i][1]))]

\* def f(): n nested `if` statements
BigFunction(n) ==
    [i \in 1..(n + 1) |->
        IF i = 1 THEN Node("FunctionDef", 0, <<"f">>, <<>>)
        ELSE Node("If", i - 1, <<>>, <<"i", "f", " ", "x", ":">>)]

PyFile(rel, nodes) ==
    File(Join(<<"/", "x">>, rel), TRUE, TRUE, Content(TRUE, Len(nodes) + 1, nodes))

\* the analyzer constructed on the tree /x with the single file y.py
ConstructPy ==
    /\ pc = "new"
    /\ \/ \E n \in 0..MaxAstNodes :
             \E p \in AstShapes(n), l \in [1..n -> AstLabels] :
                New(<<"/", "x">>, FALSE, << PyFile(<<"y", ".", "p", "y">>, Ast(p, l)) >>, <<>>)
       \/ \E n \in 49..MaxDecisions :
             New(<<"/", "x">>, FALSE, << PyFile(<<"y", ".", "p", "y">>, BigFunction(n)) >>, <<>>)

NextPy == ConstructPy \/ Run

SpecPy == Init /\ [][NextPy]_vars

\* nodes with one more node of the given kind, as the last child of node p
InsertNode(nodes, kind, p) ==
    LET pos == 1 + Cardinality({ i \in 1..Len(nodes) : nodes[i].parent <= p })
    IN  [i \in 1..(Len(nodes) + 1) |->
           IF i < pos THEN nodes[i]
           ELSE IF i = pos THEN Node(kind, p, <<>>, AstText(kind))
           ELSE [nodes[i - 1] EXCEPT !.parent = IF @ >= pos THEN @ + 1 ELSE @]]

\* the analyzer constructed on the tree /x with y.py and z.py, z.py being
\* y.py plus one decision point or boolean operator
ConstructEdit ==
    /\ pc = "new"
    /\ \E n \in 0..MaxEditNodes :
          \E p \in AstShapes(n), l \in [1..n -> AstLabels] :
             \E kind \in DecisionKinds \cup {"BoolOp"}, at \in 0..n :
                New(<<"/", "x">>, FALSE,
                    << PyFile(<<"y", ".", "p", "y">>, Ast(p, l)),
                       PyFile(<<"z", ".", "p", "y">>, InsertNode(Ast(p, l), kind, at)) >>,
                    <<>>)

NextEdit == ConstructEdit \/ Run

SpecEdit == Init /\ [][NextEdit]_vars

\* the class names of the model: no keyword, one keyword, and keywords of
\* two categories in one name
ClassNames ==
    { <<"P", "l", "a", "i", "n">>, <<"U", "s", "e", "r", "M", "o", "d", "e", "l">>, <<"O", "r", "d", "e", "r", "D", "T", "O">>, <<"M", "o", "n", "e", "y", "V", "a", "l", "u", "e">>, <<"M", "o", "d", "e", "l", "D", "a", "t", "a">>, <<"D", "a", "t", "a", "V", "a", "l", "u", "e">>,
      <<"R", "e", "c", "o", "r", "d", "V", "O">>, <<"I", "n", "v", "o", "i", "c", "e">> }

\* class <name>: def __init__(self): ...  def save(self): ...
ClassNodes(names) ==
    [i \in 1..(3 * Len(names)) |->
        IF i <= Len(names) THEN Node("ClassDef", 0, names[i], <<>>)
        ELSE IF (i - Len(names)) % 2 = 1
             THEN Node("FunctionDef", (i - Len(names) + 1) \div 2, <<"_", "_", "i", "n", "i", "t", "_", "_">>, <<>>)
             ELSE Node("FunctionDef", (i - Len(names)) \div 2, <<"s", "a", "v", "e">>, <<>>)]

\* the analyzer constructed on the tree /x with the single file y.py, a file
\* of class definitions
ConstructClasses ==
    /\ pc = "new"
    /\ \E n \in 1..MaxClasses :
          \E names \in [1..n -> ClassNames] :
             New(<<"/", "x">>, FALSE, << PyFile(<<"y", ".", "p", "y">>, ClassNodes(names)) >>, <<>>)

NextClasses == ConstructClasses \/ Run

SpecClasses == Init /\ [][NextClasses]_vars

(***************************************************************************)
(* The dependency graph and the cycle detector: a depth-first search from  *)
(* every unvisited module, with a visited set kept across the roots and a  *)
(* recursion stack unwound on backtrack.  An import token that is no       *)
(* module has no imports of its own.  The roots are taken in graph order.  *)
(* The imports of a module are a set; the graph holds each set in the      *)
(* order in which the search iterates over it, which is any order.         *)
(***************************************************************************)
CycleCap == 10

ModuleNames == <<"a", "b", "c", "d", "e", "f", "g">>

NextModule(i, n) == IF i = n THEN 1 ELSE i + 1

Ascending(n) == SubSeq(ModuleNames, 1, n)

Descending(n) == [j \in 1..n |-> ModuleNames[n + 1 - j]]

\* the import sets the model gives the i-th of n modules: none, itself, the
\* next module, every module (iterated in one order or the other), a library
ImportChoices(i, n) ==
    << <<>>, <<ModuleNames[i]>>, <<ModuleNames[NextModule(i, n)]>>,
       Ascending(n), Descending(n), <<"os">> >>

\* a search that never follows a module's import of itself
Deps_no_self(node) ==
    LET Other(t) == t # node
    IN  IF node \in DOMAIN dependencies THEN SelectSeq(dependencies[node], Other) ELSE <<>>

\* a search that takes every module to import itself
Deps_with_self(node) ==
    IF node \in DOMAIN dependencies THEN <<node>> \o dependencies[node] ELSE <<>>

\* the import tokens of a node of the graph, in iteration order
Deps(node) ==
    IF node \in DOMAIN dependencies THEN dependencies[node] ELSE <<>>

Top == Len(dfs_path)

\* where a node first occurs on the path
FirstOn(p, node) == CHOOSE i \in 1..Len(p) : p[i] = node /\ \A j \in 1..(i - 1) : p[j] # node

\* entering a node: visited, on the recursion stack, at the end of the path
Enter(node) ==
    /\ visited' = visited \cup {node}
    /\ rec_stack' = rec_stack \cup {node}
    /\ dfs_path' = Append(dfs_path, node)

BuildGraph ==
    /\ dpc = "idle"
    /\ \E n \in 1..MaxModules :
          \E pick \in [1..n -> 1..6] :
             /\ modules' = SubSeq(ModuleNames, 1, n)
             /\ dependencies' = [m \in { ModuleNames[i] : i \in 1..n } |->
                                   LET i == CHOOSE i \in 1..n : ModuleNames[i] = m
                                   IN  ImportChoices(i, n)[pick[i]]]
    /\ dpc' = "dfs"
    /\ UNCHANGED <<visited, rec_stack, dfs_path, todo, found, cycles, runVars, toolVars, scriptVars>>

\* the loop over the graph: a search starts at the first unvisited module
DfsRoot ==
    /\ dpc = "dfs"
    /\ dfs_path = <<>>
    /\ \E i \in 1..Len(modules) :
          /\ modules[i] \notin visited
          /\ \A j \in 1..(i - 1) : modules[j] \in visited
          /\ Enter(modules[i])
          /\ todo' = <<Deps(modules[i])>>
    /\ UNCHANGED <<modules, dependencies, found, cycles, dpc, runVars, toolVars, scriptVars>>

\* an import not yet visited is searched in turn
DfsVisit ==
    /\ dpc = "dfs"
    /\ dfs_path # <<>>
    /\ todo[Top] # <<>>
    /\ LET nb == Head(todo[Top])
       IN  /\ nb \notin visited
           /\ Enter(nb)
           /\ todo' = Append([todo EXCEPT ![Top] = Tail(@)], Deps(nb))
    /\ UNCHANGED <<modules, dependencies, found, cycles, dpc, runVars, toolVars, scriptVars>>

\* an import on the recursion stack closes a cycle: the path from its first
\* occurrence on, and the import itself
DfsBackEdge ==
    /\ dpc = "dfs"
    /\ dfs_path # <<>>
    /\ todo[Top] # <<>>
    /\ LET nb == Head(todo[Top])
       IN  /\ nb \in visited
           /\ nb \in rec_stack
           /\ found' = Append(found, SubSeq(dfs_path, FirstOn(dfs_path, nb), Len(dfs_path))
                                        \o <<nb>>)
           /\ todo' = [todo EXCEPT ![Top] = Tail(@)]
    /\ UNCHANGED <<modules, dependencies, visited, rec_stack, dfs_path, cycles, dpc, runVars, toolVars, scriptVars>>

\* an import visited earlier and no longer on the stack is passed over
DfsSkip ==
    /\ dpc = "dfs"
    /\ dfs_path # <<>>
    /\ todo[Top] # <<>>
    /\ LET nb == Head(todo[Top])
       IN  /\ nb \in visited
           /\ nb \notin rec_stack
           /\ todo' = [todo EXCEPT ![Top] = Tail(@)]
    /\ UNCHANGED <<modules, dependencies, visited, rec_stack, dfs_path, found, cycles, dpc,
                   runVars, toolVars, scriptVars>>

\* backtracking that also forgets the node was visited
DfsReturn_unvisit ==
    /\ dpc = "dfs"
    /\ dfs_path # <<>>
    /\ todo[Top] = <<>>
    /\ visited' = visited \ {dfs_path[Top]}
    /\ rec_stack' = rec_stack \ {dfs_path[Top]}
    /\ dfs_path' = SubSeq(dfs_path, 1, Top - 1)
    /\ todo' = SubSeq(todo, 1, Top - 1)
    /\ UNCHANGED <<modules, dependencies, found, cycles, dpc, runVars, toolVars, scriptVars>>

\* backtracking that leaves the node on the recursion stack
DfsReturn_keeps_stack ==
    /\ dpc = "dfs"
    /\ dfs_path # <<>>
    /\ todo[Top] = <<>>
    /\ dfs_path' = SubSeq(dfs_path, 1, Top - 1)
    /\ todo' = SubSeq(todo, 1, Top - 1)
    /\ UNCHANGED <<modules, dependencies, visited, rec_stack, found, cycles, dpc, runVars, toolVars, scriptVars>>

\* backtracking: the node leaves the recursion stack and the path
DfsReturn ==
    /\ dpc = "dfs"
    /\ dfs_path # <<>>
    /\ todo[Top] = <<>>
    /\ rec_stack' = rec_stack \ {dfs_path[Top]}
    /\ dfs_path' = SubSeq(dfs_path, 1, Top - 1)
    /\ todo' = SubSeq(todo, 1, Top - 1)
    /\ UNCHANGED <<modules, dependencies, visited, found, cycles, dpc, runVars, toolVars, scriptVars>>

\* a report of every cycle recorded
DfsReport_uncapped ==
    /\ dpc = "dfs"
    /\ dfs_path = <<>>
    /\ \A i \in 1..Len(modules) : modules[i] \in visited
    /\ cycles' = found
    /\ dpc' = "done"
    /\ UNCHANGED <<modules, dependencies, visited, rec_stack, dfs_path, todo, found, runVars, toolVars, scriptVars>>

\* every module is visited: the first CycleCap cycles are reported
DfsReport ==
    /\ dpc = "dfs"
    /\ dfs_path = <<>>
    /\ \A i \in 1..Len(modules) : modules[i] \in visited
    /\ cycles' = SubSeq(found, 1, IF Len(found) < CycleCap THEN Len(found) ELSE CycleCap)
    /\ dpc' = "done"
    /\ UNCHANGED <<modules, dependencies, visited, rec_stack, dfs_path, todo, found, runVars, toolVars, scriptVars>>

NextCycles ==
    BuildGraph \/ DfsRoot \/ DfsVisit \/ DfsBackEdge \/ DfsSkip \/ DfsReturn \/ DfsReport

SpecCycles == Init /\ [][NextCycles]_vars

(***************************************************************************)
(* The trees and files the tools are run on, one tool per behaviour.       *)
(***************************************************************************)
ToolRoot == <<"/", "p">>

\* the entries of a walk picked by their positions, in walk order
Pick(entries, S) == SelectSeq(entries, LAMBDA e : \E i \in S : entries[i] = e)

NoToolYet ==
    /\ reviewer.pc = "idle"
    /\ docs_analyzer.pc = "idle"
    /\ checker.pc = "idle"
    /\ improver.pc = "idle"
    /\ ddd.pc = "idle"

\* public class A { public void run() { } }
JavaClean ==
    JavaContent(<< [JLine EXCEPT !.class_name = <<"A">>], [JLine EXCEPT !.method = "camel"] >>,
                <<>>, 0, 0)

\* a file whose class is not named after it, with one finding of every check
JavaRisky ==
    JavaContent(<< [JLine EXCEPT !.class_name = <<"B">>, !.collection = "shared"],
                   [JLine EXCEPT !.method = "upper", !.synchronized = TRUE],
                   [JLine EXCEPT !.sql = TRUE, !.password = TRUE],
                   [JLine EXCEPT !.xss = "raw", !.nplus1 = TRUE],
                   [JLine EXCEPT !.resource = "bare", !.concat = TRUE],
                   [JLine EXCEPT !.xss = "escaped", !.resource = "in_try",
                                 !.collection = "local"] >>,
                << <<"r", "u", "n">> >>, 1, 0)

\* a class of more than 500 lines
JavaHuge == JavaContent(<< [JLine EXCEPT !.class_name = <<"A">>] >>, <<>>, 0, 500)

JavaEntry(rel, is_file, readable, content) ==
    [path |-> Join(ToolRoot, rel), is_file |-> is_file, readable |-> readable,
     content |-> content]

JavaEntries ==
    << JavaEntry(<<"A", ".", "j", "a", "v", "a">>, TRUE, TRUE, JavaClean),
       JavaEntry(<<"A", ".", "j", "a", "v", "a">>, TRUE, TRUE, JavaRisky),
       JavaEntry(<<"A", ".", "j", "a", "v", "a">>, TRUE, FALSE, JavaClean),
       JavaEntry(<<"s", "r", "c", "/", "A", ".", "j", "a", "v", "a">>, TRUE, TRUE, JavaHuge),
       JavaEntry(<<"g", "e", "n", ".", "j", "a", "v", "a">>, FALSE, TRUE, JavaClean),
       JavaEntry(<<"n", "o", "t", "e", "s", ".", "t", "x", "t">>, TRUE, TRUE, JavaClean) >>

ConstructReviewer ==
    /\ NoToolYet
    /\ \E S \in SUBSET (1..Len(JavaEntries)) :
          /\ DistinctPaths(Pick(JavaEntries, S))
          /\ ReviewerNew(Pick(JavaEntries, S))

DocRich ==
    DocContent(
      <<"#", " ", "T", "\n", "\n", "#", "#", " ", "A", "\n", "-", " ", "i", "n", "s", "t",
        "a", "l", "l", "\n", "#", "#", " ", "B", "\n", "u", "s", "a", "g", "e", " ",
        "[", "a", "]", "(", "b", ")", "\n", BT, BT, BT, "\n", BT, BT, BT>>, 0)

DocPoor == DocContent(<<"T", "O", "D", "O", " ", "h", "e", "l", "l", "o">>, 0)

DocLong == DocContent(<<"#", " ", "T">>, 600)

DocEntry(rel, is_file, readable, content) ==
    [path |-> Join(ToolRoot, rel), is_file |-> is_file, readable |-> readable,
     content |-> content]

DocEntries ==
    << DocEntry(<<"R", "E", "A", "D", "M", "E", ".", "m", "d">>, TRUE, TRUE, DocRich),
       DocEntry(<<"R", "E", "A", "D", "M", "E", ".", "m", "d">>, TRUE, TRUE, DocPoor),
       DocEntry(<<"R", "E", "A", "D", "M", "E", ".", "m", "d">>, TRUE, FALSE, DocPoor),
       DocEntry(<<"g", "u", "i", "d", "e", ".", "r", "s", "t">>, TRUE, TRUE, DocLong),
       DocEntry(<<"v", "e", "n", "d", "o", "r", "/", "x", ".", "m", "d">>, TRUE, TRUE, DocRich),
       DocEntry(<<"a", ".", "p", "y">>, TRUE, TRUE, DocPoor) >>

ConstructDocsAnalyzer ==
    /\ NoToolYet
    /\ \E S \in SUBSET (1..Len(DocEntries)) :
          /\ DistinctPaths(Pick(DocEntries, S))
          /\ DocsNew(ToolRoot, Pick(DocEntries, S))

\* documents GET /a; the example defines f and g; links to a file, a site, an anchor
MdApi == MdContent(<<>>, << <<"/", "a">> >>, <<>>, <<>>)

MdReadme ==
    MdContent(<<"i", "n", "s", "t", "a", "l", "l", " ", "u", "s", "a", "g", "e", " ">> \o Fence \o <<" ", "c", "o", "n", "t", "r", "i", "b", "u", "t">>, <<>>, << << <<"f">>, <<"g">> >> >>,
              << <<"d", "o", "c", "s", "/", "x", ".", "m", "d">>, <<"h", "t", "t", "p", ":", "/", "/", "x">>, <<"#", "t", "o", "p">> >>)

MdBare == MdContent(<<"h", "e", "l", "l", "o">>, <<>>, <<>>, <<>>)

PyApp == PyContent(<< <<"/", "a">>, <<"/", "b">>, <<"/", "c">> >>, { <<"f">> })

Dir == MdContent(<<>>, <<>>, <<>>, <<>>)

ProjectEntry(rel, is_file, readable, decodes, content) ==
    ProjectFile(Join(ToolRoot, rel), is_file, readable, decodes, content)

CheckerEntries ==
    << ProjectEntry(<<"A", "P", "I", ".", "m", "d">>, TRUE, TRUE, TRUE, MdApi),
       ProjectEntry(<<"A", "P", "I", ".", "m", "d">>, TRUE, TRUE, FALSE, MdApi),
       ProjectEntry(<<"d", "o", "c", "s", "/", "A", "P", "I", ".", "m", "d">>, TRUE, TRUE, TRUE, MdBare),
       ProjectEntry(<<"R", "E", "A", "D", "M", "E", ".", "m", "d">>, TRUE, TRUE, TRUE, MdReadme),
       ProjectEntry(<<"R", "E", "A", "D", "M", "E", ".", "m", "d">>, TRUE, TRUE, FALSE, MdReadme),
       ProjectEntry(<<"a", "p", "p", ".", "p", "y">>, TRUE, TRUE, TRUE, PyApp),
       ProjectEntry(<<"d", "o", "c", "s", "/", "x", ".", "m", "d">>, TRUE, TRUE, TRUE, MdBare) >>

ConstructChecker ==
    /\ NoToolYet
    /\ \E S \in SUBSET (1..Len(CheckerEntries)) :
          /\ DistinctPaths(Pick(CheckerEntries, S))
          /\ CheckerNew(ToolRoot, Pick(CheckerEntries, S))

ImproverEntries ==
    << ProjectEntry(<<"R", "E", "A", "D", "M", "E", ".", "m", "d">>, TRUE, TRUE, TRUE, MdReadme),
       ProjectEntry(<<"R", "E", "A", "D", "M", "E", ".", "m", "d">>, TRUE, TRUE, TRUE, MdBare),
       ProjectEntry(<<"R", "E", "A", "D", "M", "E", ".", "m", "d">>, TRUE, TRUE, FALSE, MdReadme),
       ProjectEntry(<<"e", "x", "a", "m", "p", "l", "e", "s">>, FALSE, TRUE, TRUE, Dir),
       ProjectEntry(<<"e", "x", "a", "m", "p", "l", "e", "s">>, TRUE, TRUE, TRUE, MdBare),
       ProjectEntry(<<"e", "x", "a", "m", "p", "l", "e", "s", "/", "a", ".", "p", "y">>, TRUE, TRUE, TRUE, PyApp),
       ProjectEntry(<<"d", "o", "c", "s">>, FALSE, TRUE, TRUE, Dir),
       ProjectEntry(<<"d", "o", "c", "s", "/", "A", "P", "I", ".", "m", "d">>, TRUE, TRUE, TRUE, MdApi),
       ProjectEntry(<<"C", "O", "N", "T", "R", "I", "B", "U", "T", "I", "N", "G", ".", "m", "d">>, TRUE, TRUE, TRUE, MdBare) >>

\* a file lies in a directory of the tree, not under a plain file
WellFormed(tree) ==
    \A i, j \in 1..Len(tree) :
        StartsWith(tree[j].path, tree[i].path \o <<"/">>) => ~tree[i].is_file

ConstructImprover ==
    /\ NoToolYet
    /\ \E S \in SUBSET (1..Len(ImproverEntries)) :
          /\ DistinctPaths(Pick(ImproverEntries, S))
          /\ WellFormed(Pick(ImproverEntries, S))
          /\ ImproverNew(ToolRoot, Pick(ImproverEntries, S))

DddClass(name, bases) == [name |-> name, bases |-> bases]

\* class names with the suffix of every category, and base classes
DddClasses ==
    { DddClass(n, <<>>) :
        n \in { <<"O", "r", "d", "e", "r">>, <<"O", "r", "d", "e", "r", "A", "g", "g", "r", "e", "g", "a", "t", "e">>, <<"U", "s", "e", "r", "E", "n", "t", "i", "t", "y">>, <<"M", "o", "n", "e", "y", "V", "a", "l", "u", "e">>, <<"P", "a", "y", "S", "e", "r", "v", "i", "c", "e">>,
                <<"U", "s", "e", "r", "R", "e", "p", "o", "s", "i", "t", "o", "r", "y">>, <<"O", "r", "d", "e", "r", "C", "r", "e", "a", "t", "e", "d">>, <<"C", "a", "r", "F", "a", "c", "t", "o", "r", "y">>, <<"X">> } }
    \cup { DddClass(<<"L", "i", "n", "e">>, << <<"B", "a", "s", "e", "E", "n", "t", "i", "t", "y">> >>), DddClass(<<"P", "r", "i", "c", "e">>, << <<"V", "a", "l", "u", "e", "O", "b", "j", "e", "c", "t">> >>) }

ConstructDdd == NoToolYet /\ DddNew

\* analyze_python on one file of classes
AnalyzeDdd ==
    /\ ddd.pc = "ready"
    /\ \E n \in 1..MaxClasses :
          \E classes \in [1..n -> DddClasses] : DddAnalyzePython(<<"m", ".", "p", "y">>, classes)

NextTools ==
    \/ ConstructReviewer \/ ReviewerScan
    \/ ConstructDocsAnalyzer \/ DocsScan \/ DocsAnalyze
    \/ ConstructChecker \/ CheckAll
    \/ ConstructImprover \/ AnalyzeAndSuggest
    \/ ConstructDdd \/ AnalyzeDdd

SpecTools == Init /\ [][NextTools]_vars

(***************************************************************************)
(* Python files as inputs of the execution paths: functions that call one  *)
(* another, themselves, or names defined nowhere; a file of fifty          *)
(* functions that call one another in a chain; a file of five entry        *)
(* points.                                                                 *)
(***************************************************************************)
PathFuncNames == << <<"m", "a", "i", "n">>, <<"a">>, <<"r", "u", "n">>, <<"b">> >>

\* the names called in the body of a function, in text order
CallChoices ==
    << <<>>, << <<"m", "a", "i", "n">> >>, << <<"a">> >>, << <<"r", "u", "n">> >>, << <<"a">>, <<"m", "a", "i", "n">> >>,
       << <<"p", "r", "i", "n", "t">>, <<"r", "u", "n">>, <<"r", "u", "n">> >> >>

\* def name(): callee(); ... for each function, as ast.walk yields the
\* nodes: the definitions, then the calls of each
CallTree(names, called) ==
    LET n == Len(names)
        longest == CHOOSE m \in { Len(called[i]) : i \in 1..n } :
                      \A i \in 1..n : Len(called[i]) <= m
        \* how many calls the first i functions make
        Offset(i) == Cardinality({ p \in (1..i) \X (1..longest) : p[2] <= Len(called[p[1]]) })
        total == Offset(n)
        Owner(c) == CHOOSE i \in 1..n : Offset(i - 1) < c /\ c <= Offset(i)
    IN  [k \in 1..n |-> Node("FunctionDef", 0, names[k], <<>>)]
          \o [c \in 1..total |->
                 LET i == Owner(c)
                 IN  Node("Call", i, called[i][c - Offset(i - 1)], <<>>)]

Digits == <<"0", "1", "2", "3", "4", "5", "6", "7", "8", "9">>

\* f01, f02, ...
ChainName(i) == <<"f", Digits[(i \div 10) + 1], Digits[(i % 10) + 1]>>

\* def f01(): main()
\* def f02(): f01() ...
PyChain ==
    CallTree([i \in 1..FunctionsLimit |-> ChainName(i)],
             [i \in 1..FunctionsLimit |->
                IF i = 1 THEN << <<"m", "a", "i", "n">> >> ELSE << ChainName(i - 1) >>])

\* five entry points, none calling another
PyEntries ==
    CallTree(<< <<"m", "a", "i", "n">>, <<"r", "u", "n">>, <<"e", "x", "e", "c", "u", "t", "e">>, <<"h", "a", "n", "d", "l", "e">>, <<"p", "r", "o", "c", "e", "s", "s">> >>,
             << <<>>, <<>>, <<>>, <<>>, <<>> >>)

\* y.py: the first n of the functions, with the calls picked for each
PyCalls(n, pick) ==
    PyFile(<<"y", ".", "p", "y">>, CallTree(SubSeq(PathFuncNames, 1, n),
                            [i \in 1..n |-> CallChoices[pick[i]]]))

\* the analyzer constructed on the tree /x with y.py, alone, after the five
\* entry points of w.py, or (y.py then holding main only) after the chain
ConstructPaths ==
    /\ pc = "new"
    /\ \/ \E n \in 1..MaxPathFuncs, before \in { <<>>, << PyFile(<<"w", ".", "p", "y">>, PyEntries) >> } :
             \E pick \in [1..n -> 1..Len(CallChoices)] :
                New(<<"/", "x">>, FALSE, before \o << PyCalls(n, pick) >>, <<>>)
       \/ \E pick \in [1..1 -> 1..Len(CallChoices)] :
             New(<<"/", "x">>, FALSE, << PyFile(<<"w", ".", "p", "y">>, PyChain), PyCalls(1, pick) >>, <<>>)

NextPaths == ConstructPaths \/ Run

SpecPaths == Init /\ [][NextPaths]_vars
(***************************************************************************)
(* Files that yield business rules: a Python function of `if` statements   *)
(* and a Rust file of match expressions, analysed in either order and by   *)
(* one or more calls of run.                                               *)
(***************************************************************************)
MaxIfs == 2
MaxMatches == 2

IfTexts == { <<"i", "f", " ", "x", ":">>, <<"i", "f", " ", "n", "o", "t", " ", "o", "k", ":", " ", "r", "a", "i", "s", "e">>, <<"i", "f", " ", "n", "o", "t", " ", "x", ":", " ", "m", "u", "s", "t">>, <<"i", "f", " ", "y", ":", " ", "r", "e", "q", "u", "i", "r", "e", "d">> }

MatchTexts == { <<"E", "r", "r", "(", "e", ")", " ", "=", ">", " ", "0">>, <<"S", "o", "m", "e", "(", "v", ")", " ", "=", ">", " ", "v">> }

\* def check(): the `if` statements of the given texts, one after another
PyIfs(texts) ==
    PyFile(<<"y", ".", "p", "y">>,
           << Node("FunctionDef", 0, <<"c", "h", "e", "c", "k">>, <<>>) >>
           \o [k \in 1..Len(texts) |-> Node("If", 1, <<>>, texts[k])])

\* match expressions with the given arms
RsMatches(texts) ==
    File(<<"/", "x", "/", "y", ".", "r", "s">>, TRUE, TRUE,
         Content(TRUE, Len(texts) + 1,
                 [k \in 1..Len(texts) |-> Node("match", 0, <<"r">>, texts[k])]))

ConstructRules ==
    /\ pc = "new"
    /\ \E n \in 0..MaxIfs, m \in 0..MaxMatches :
          \E t \in [1..n -> IfTexts], u \in [1..m -> MatchTexts], python_first \in BOOLEAN :
             New(<<"/", "x">>, FALSE,
                 IF python_first THEN << PyIfs(t), RsMatches(u) >>
                 ELSE << RsMatches(u), PyIfs(t) >>,
                 <<>>)

NextRules == ConstructRules \/ Run \/ RunAgain

SpecRules == Init /\ [][NextRules]_vars

(***************************************************************************)
(* The scores of the tools: the reviewer on files with given numbers of    *)
(* findings, the solution optimizer on documents put together from the     *)
(* words it looks for, and the two documentation analyzers on trees of     *)
(* documentation files.  One tool is run per behaviour.                    *)
(***************************************************************************)
MaxCritical == 11
MaxMajor == 2
MaxMinor == 2
MaxPieces == 2

NoScriptYet ==
    /\ NoToolYet
    /\ review_report = <<>>
    /\ architect = <<>>
    /\ quality.pc = "idle"

\* a file A.java of class A with c hard-coded passwords, m long methods and
\* n parameter lists that are too long
JavaWith(c, m, n) ==
    JavaContent(<< [JLine EXCEPT !.class_name = <<"A">>] >>
                \o [k \in 1..c |-> [JLine EXCEPT !.password = TRUE]],
                [k \in 1..m |-> <<"r", "u", "n">>],
                n, 0)

ConstructReview ==
    /\ NoScriptYet
    /\ \E c \in 0..MaxCritical, m \in 0..MaxMajor, n \in 0..MaxMinor :
          ReviewerNew(<< JavaEntry(<<"A", ".", "j", "a", "v", "a">>, TRUE, TRUE, JavaWith(c, m, n)) >>)

\* what the documents are put together from
DocPieces ==
    << TaskBreakdown,
       SectionHeader("12.", TaskBreakdown),
       SectionHeader("4.", SystemArchitecture),
       SectionHeader("2.", <<"product goal">>),
       Bar, Hashes, Mermaid, <<"metric">>, <<"risk">>, <<"text", "\n">> >>

RECURSIVE Flatten(_)
Flatten(pieces) == IF pieces = <<>> THEN <<>> ELSE Head(pieces) \o Flatten(Tail(pieces))

ConstructArchitect ==
    /\ NoScriptYet
    /\ \E n \in 0..MaxPieces :
          \E pick \in [1..n -> 1..Len(DocPieces)], level \in Levels :
             ArchitectMain(Flatten([k \in 1..n |-> DocPieces[pick[k]]]), level)

\* a README that passes every check
DocFull ==
    DocContent(DocRich.text \o <<" ", "s", "e", "t", "u", "p", " ", "e", "x", "a", "m", "p", "l", "e", " ", "[", "t", "o", "c", "]", " ", "h", "t", "t", "p", " ", "-", " ">> \o <<"#", "#", "#", " ", "C">>,
               300)

QualityEntries ==
    << DocEntry(<<"R", "E", "A", "D", "M", "E", ".", "m", "d">>, TRUE, TRUE, DocFull),
       DocEntry(<<"R", "E", "A", "D", "M", "E", ".", "m", "d">>, TRUE, TRUE, DocPoor),
       DocEntry(<<"R", "E", "A", "D", "M", "E", ".", "m", "d">>, TRUE, FALSE, DocPoor),
       DocEntry(<<"d", "o", "c", "s", "/", "g", "u", "i", "d", "e", ".", "r", "s", "t">>, TRUE, TRUE, DocLong),
       DocEntry(<<"d", "o", "c", "s", "/", "x", ".", "p", "y">>, TRUE, TRUE, DocRich),
       DocEntry(<<"s", "r", "c", "/", "a", "p", "p", ".", "p", "y">>, TRUE, TRUE, DocContent(<<"F", "l", "a", "s", "k">>, 0)),
       DocEntry(<<"n", "o", "t", "e", "s">>, TRUE, TRUE, DocContent(<<>>, 150)) >>

ConstructQuality ==
    /\ NoScriptYet
    /\ \E S \in SUBSET (1..Len(QualityEntries)) :
          /\ DistinctPaths(Pick(QualityEntries, S))
          /\ QualityNew(ToolRoot, Pick(QualityEntries, S))

AskedFiles == { <<>>, <<"R", "E", "A", "D", "M", "E", ".", "m", "d">>, <<"d", "o", "c", "s", "/", "n", "o", "n", "e", ".", "m", "d">> }

AssessQuality == \E file_path \in AskedFiles : QualityAssess(file_path)

ConstructDocs == NoScriptYet /\ ConstructDocsAnalyzer

NextScores ==
    \/ ConstructReview
    \/ ReviewerScan
    \/ ReviewerReport
    \/ ConstructArchitect
    \/ ArchitectAgain
    \/ ConstructQuality
    \/ QualityScan
    \/ AssessQuality
    \/ ConstructDocs
    \/ DocsScan
    \/ DocsAnalyze

SpecScores == Init /\ [][NextScores]_vars

(***************************************************************************)
(* The DDDAnalyzer on one file of Python, Rust or TypeScript.              *)
(***************************************************************************)
DddNames == { c.name : c \in DddClasses }

DddTraits == { <<"U", "s", "e", "r", "R", "e", "p", "o", "s", "i", "t", "o", "r", "y">>, <<"O", "r", "d", "e", "r", "R", "e", "p", "o">>, <<"D", "i", "s", "p", "l", "a", "y">> }

AnalyzeDddRust ==
    /\ ddd.pc = "ready"
    /\ \E n \in 1..MaxClasses, m \in 0..1 :
          \E structs \in [1..n -> DddNames], traits \in [1..m -> DddTraits] :
             DddAnalyzeRust(<<"m", ".", "r", "s">>, structs, traits)

AnalyzeDddTypescript ==
    /\ ddd.pc = "ready"
    /\ \E n \in 1..MaxClasses :
          \E names \in [1..n -> DddNames] : DddAnalyzeTypescript(<<"m", ".", "t", "s">>, names)

NextDdd == ConstructDdd \/ AnalyzeDdd \/ AnalyzeDddRust \/ AnalyzeDddTypescript

SpecDdd == Init /\ [][NextDdd]_vars


(***************************************************************************)
(* Properties of discovery and of the loop of run.                         *)
(***************************************************************************)
Excluded(p) == \E j \in 1..Len(exclude_patterns) : IsSubstring(exclude_patterns[j], p)

\* a discovered Python file that can be read and that ast.parse rejects
Unparseable(p) ==
    /\ PathSuffix(p) = <<".", "p", "y">>
    /\ Entry(p).readable
    /\ ~Entry(p).content.ok

\* C1: once discover_files has run, no file of self.files has a full path
\* that contains an exclusion pattern as a substring, whatever its suffix.
C1_ExcludedNeverDiscovered ==
    pc \notin {"new", "start"} => \A k \in 1..Len(files) : ~Excluded(files[k])

\* A supported file under an excluded path was dropped while another was kept.
C1_Witness ==
    /\ pc \notin {"new", "start"}
    /\ files # <<>>
    /\ \E e \in Range(fs) :
          /\ e.is_file
          /\ PathSuffix(e.path) \in SupportedSuffixes
          /\ Excluded(e.path)
          /\ e.path \notin Range(files)

\* C2: every file of self.files has a suffix of the supported table, for a
\* directory root and for a single-file root alike.
C2_OnlySupportedSuffixes ==
    pc \notin {"new", "start"} => \A k \in 1..Len(files) : PathSuffix(files[k]) \in SupportedSuffixes

\* A file no pattern excludes was dropped for its suffix while another was kept.
C2_Witness ==
    /\ pc \notin {"new", "start"}
    /\ files # <<>>
    /\ \E e \in Range(fs) :
          /\ e.is_file
          /\ ~Excluded(e.path)
          /\ PathSuffix(e.path) \notin SupportedSuffixes
          /\ e.path \notin Range(files)

\* C3: after discovery run never aborts because of one file: it reaches its
\* end and returns the report.
C3_RunNeverAborts == pc # "raised"

\* C4 as stated: at the end of run a Python file that does not parse has
\* contributed nothing and has an error attached to its record in the report.
C4_ErrorFieldAttached ==
    pc = "done" =>
        \A k \in 1..Len(files) :
            Unparseable(files[k]) =>
                /\ \A i \in 1..Len(functions) :
                      functions[i].file # RelPath(root_path, files[k])
                /\ \E j \in 1..Len(report.issues) : report.issues[j].file = files[k]

\* C4, amended: the pass of the loop over a Python file that does not parse
\* leaves functions, data models, rules and dependencies as they were, prints
\* a warning and goes on to the next file; nothing is ever attached to the
\* report for it (report.issues stays empty).
C4_SyntaxErrorSkipsFile ==
    /\ [](report.issues = <<>>)
    /\ [][ (pc = "loop" /\ idx <= Len(files) /\ Unparseable(files[idx])) =>
              /\ pc' = "loop"
              /\ idx' = idx + 1
              /\ warned' = Append(warned, files[idx])
              /\ UNCHANGED <<functions, data_models, business_rules,
                             external_deps, report>> ]_vars

\* A file that does not parse was passed over and a later file was analysed.
C4_Witness ==
    /\ pc = "done"
    /\ \E k \in 1..Len(files) :
          /\ Unparseable(files[k])
          /\ files[k] \in Range(warned)
          /\ \E m \in (k + 1)..Len(files), i \in 1..Len(functions) :
                functions[i].file = RelPath(root_path, files[m])

(***************************************************************************)
(* Properties of the complexity score.                                     *)
(***************************************************************************)
AllDecisionKinds == DecisionKinds \cup {"BoolOp"}

\* the syntax tree of the file a function record comes from
NodesOf(func) == Entry(Join(root_path, func.file)).content.nodes

\* the definition a function record holds: the last one of that name
DefOf(func) ==
    LET nodes == NodesOf(func)
    IN  CHOOSE k \in 1..Len(nodes) :
           /\ nodes[k].kind \in FunctionKinds
           /\ nodes[k].name = func.name
           /\ \A m \in (k + 1)..Len(nodes) :
                 ~(nodes[m].kind \in FunctionKinds /\ nodes[m].name = func.name)

\* how many nodes of the given kinds lie within the definition of func
CountWithin(func, kinds) ==
    LET nodes == NodesOf(func)
    IN  Cardinality({ j \in 1..Len(nodes) :
                        nodes[j].kind \in kinds /\ InSubtree(nodes, DefOf(func), j) })

\* how many nodes of the given kinds the whole file of func holds
CountInFile(func, kinds) ==
    LET nodes == NodesOf(func)
    IN  Cardinality({ j \in 1..Len(nodes) : nodes[j].kind \in kinds })

C6_NoDecisionScoresOne ==
    \A i \in 1..Len(functions) :
        CountWithin(functions[i], AllDecisionKinds) = 0 => functions[i].complexity = 1

\* A function without decision points was scored in a file that has some.
C6_Witness ==
    \E i \in 1..Len(functions) :
        /\ CountWithin(functions[i], AllDecisionKinds) = 0
        /\ CountInFile(functions[i], AllDecisionKinds) > 0
        /\ functions[i].complexity = 1

MinOf(a, b) == IF a < b THEN a ELSE b

C8_Monotone ==
    \A i, j \in 1..Len(functions) :
        (functions[i].file = <<"y", ".", "p", "y">> /\ functions[j].file = <<"z", ".", "p", "y">>
         /\ functions[i].name = functions[j].name)
        => functions[i].complexity <= functions[j].complexity

\* The added decision point raised the score of a function.
C8_Witness ==
    \E i, j \in 1..Len(functions) :
        /\ functions[i].file = <<"y", ".", "p", "y">> /\ functions[j].file = <<"z", ".", "p", "y">>
        /\ functions[i].name = functions[j].name
        /\ functions[i].complexity < functions[j].complexity

(***************************************************************************)
(* Properties of the cycle detector.                                       *)
(***************************************************************************)
\* the module's import tokens hold its own identity
SelfImporting(m) ==
    m \in DOMAIN dependencies /\ \E i \in 1..Len(dependencies[m]) : dependencies[m][i] = m

\* a cycle as recorded: the last module equals the first
Closed(c) == Len(c) >= 2 /\ c[1] = c[Len(c)]

\* two recorded cycles are the same closed path, started at any of its modules
SameCycle(c, d) ==
    /\ Closed(c) /\ Closed(d) /\ Len(c) = Len(d)
    /\ \E k \in 0..(Len(c) - 2) :
          \A i \in 1..(Len(c) - 1) : c[i] = d[((i - 1 + k) % (Len(c) - 1)) + 1]

\* the graph of the chain a -> b -> c -> a, no other edge
Chain3 ==
    /\ modules = <<"a", "b", "c">>
    /\ dependencies = [m \in {"a", "b", "c"} |->
                         CASE m = "a" -> <<"b">> [] m = "b" -> <<"c">> [] OTHER -> <<"a">>]

\* the graph of two modules that import each other
Pair ==
    /\ modules = <<"a", "b">>
    /\ dependencies = [m \in {"a", "b"} |-> IF m = "a" THEN <<"b">> ELSE <<"a">>]

\* C9 as stated: when the search is over, every module that imports itself
\* is reported as a cycle of that one module.
C9_SelfImportReported ==
    dpc = "done" =>
        \A i \in 1..Len(modules) :
            SelfImporting(modules[i]) =>
                \E k \in 1..Len(cycles) : cycles[k] = <<modules[i], modules[i]>>

\* C9, amended: when the search is over, every module that imports itself
\* has been recorded as a cycle of that one module, and the cycle is reported
\* when it is among the first CycleCap cycles recorded.
C9_SelfImportDetected ==
    dpc = "done" =>
        \A i \in 1..Len(modules) :
            SelfImporting(modules[i]) =>
                \E k \in 1..Len(found) :
                    /\ found[k] = <<modules[i], modules[i]>>
                    /\ k <= CycleCap => (k <= Len(cycles) /\ cycles[k] = found[k])

\* a self-importing module among other cycles, reported
C9_Witness ==
    /\ dpc = "done"
    /\ Len(modules) >= 2
    /\ SelfImporting(modules[2])
    /\ Len(found) >= 2
    /\ \E k \in 1..Len(cycles) : cycles[k] = <<modules[2], modules[2]>>

\* C10: on the chain a -> b -> c -> a the search records one cycle only and
\* reports exactly one, the closed path over the three modules up to
\* rotation; on two modules importing each other it records one cycle only
\* and reports exactly one, [a, b, a] up to rotation.
C10_OneCyclePerLoop ==
    /\ Chain3 =>
          /\ Len(found) <= 1
          /\ dpc = "done" =>
                (Len(cycles) = 1 /\ SameCycle(cycles[1], <<"a", "b", "c", "a">>))
    /\ Pair =>
          /\ Len(found) <= 1
          /\ dpc = "done" =>
                (Len(cycles) = 1 /\ SameCycle(cycles[1], <<"a", "b", "a">>))

\* the chain searched to the end, b and c never taken as roots
C10_Witness ==
    /\ dpc = "done"
    /\ Chain3
    /\ visited = {"a", "b", "c"}
    /\ cycles = << <<"a", "b", "c", "a">> >>

\* no module of the graph has an import
NoEdges == \A m \in DOMAIN dependencies : dependencies[m] = <<>>

\* C11: on a graph in which no module has any import the search records no
\* cycle and reports none.
C11_NoEdgesNoCycles ==
    (dpc # "idle" /\ NoEdges) => (found = <<>> /\ cycles = <<>>)

\* several modules without imports, searched to the end
C11_Witness ==
    /\ dpc = "done"
    /\ Len(modules) >= 2
    /\ NoEdges
    /\ visited = Range(modules)
    /\ cycles = <<>>

\* C12: the number of cycles reported is at most CycleCap, however many
\* cycles the search recorded.
C12_AtMostCycleCap == Len(cycles) <= CycleCap

\* more cycles recorded than the cap, CycleCap of them reported
C12_Witness ==
    /\ dpc = "done"
    /\ Len(found) > CycleCap
    /\ Len(cycles) = CycleCap

\* C13: the visited set only grows, a node entered was not visited before,
\* the recursion stack is always the set of nodes on the path being
\* explored (so it is empty between roots), and backtracking removes the
\* node left from it.
C13_VisitedAndStackDiscipline ==
    /\ [](rec_stack = Range(dfs_path))
    /\ [][/\ visited \subseteq visited'
          /\ Len(dfs_path') > Len(dfs_path) =>
                /\ dfs_path'[Len(dfs_path')] \notin visited
                /\ dfs_path'[Len(dfs_path')] \in visited'
          /\ Len(dfs_path') < Len(dfs_path) =>
                rec_stack' = rec_stack \ {dfs_path[Len(dfs_path)]}]_vars

\* a second root under search after the first was searched and left, with an
\* import of the second root already passed over as visited
C13_Witness ==
    /\ dpc = "dfs"
    /\ dfs_path = <<"c">>
    /\ rec_stack = {"c"}
    /\ visited = {"a", "b", "c"}
    /\ Len(modules) >= 3
    /\ dependencies["c"] = <<"a">>
    /\ todo = << <<>> >>

(***************************************************************************)
(* Properties of repeated runs.                                            *)
(***************************************************************************)
\* C14: a call of run on an analyzer whose run has returned before returns
\* the same functions, data models, business rules and external
\* dependencies as the call before it.
C14_RerunSameReport ==
    \A i \in 2..Len(returned) :
        returned[i].call >= 2 =>
            /\ returned[i].report.functions = returned[i - 1].report.functions
            /\ returned[i].report.data_models = returned[i - 1].report.data_models
            /\ returned[i].report.business_rules = returned[i - 1].report.business_rules
            /\ returned[i].report.external_deps = returned[i - 1].report.external_deps

\* C15: two runs, each by a new analyzer on the same tree, return the same
\* ordered lists of external dependencies, functions and data models.
C15_IndependentRunsSameLists ==
    \A i, j \in 1..Len(returned) :
        (returned[i].call = 1 /\ returned[j].call = 1) =>
            /\ returned[i].report.external_deps = returned[j].report.external_deps
            /\ returned[i].report.functions = returned[j].report.functions
            /\ returned[i].report.data_models = returned[j].report.data_models

(***************************************************************************)
(* Properties of the languages without a rule set and of class records.    *)
(***************************************************************************)
NoRuleSetSuffixes == { <<".", "j", "a", "v", "a">>, <<".", "g", "o">>, <<".", "s", "q", "l">> }

\* a discovered file that can be read and whose suffix has no analysis
NoRuleSet(p) == PathSuffix(p) \in NoRuleSetSuffixes /\ Entry(p).readable

\* C18: the pass of the loop over a readable .java, .go or .sql file leaves
\* functions, data models, business rules and external dependencies as they
\* were and prints no warning; at the end of run the file is counted in
\* total_files and in the language count of its suffix.
C18_NoRuleSetNoEffect ==
    /\ [][ (pc = "loop" /\ idx <= Len(files) /\ NoRuleSet(files[idx])) =>
              /\ pc' = "loop"
              /\ idx' = idx + 1
              /\ UNCHANGED <<functions, data_models, business_rules, external_deps,
                             warned, report>> ]_vars
    /\ [](pc = "done" =>
            /\ report.total_files = Len(files)
            /\ \A k \in 1..Len(files) :
                  /\ PathSuffix(files[k]) \in DOMAIN report.languages
                  /\ report.languages[PathSuffix(files[k])] =
                        Cardinality({ m \in 1..Len(files) :
                                        PathSuffix(files[m]) = PathSuffix(files[k]) }))

\* a Java file analysed after a Python file: two files counted, one per
\* suffix, and only the Python file has contributed
C18_Witness ==
    /\ pc = "done"
    /\ Len(files) = 2
    /\ PathSuffix(files[2]) = <<".", "j", "a", "v", "a">>
    /\ NoRuleSet(files[2])
    /\ Entry(files[2]).content.nodes # <<>>
    /\ report.total_files = 2
    /\ report.languages[<<".", "j", "a", "v", "a">>] = 1
    /\ functions # <<>>
    /\ \A i \in 1..Len(functions) : functions[i].file = RelPath(root_path, files[1])
    /\ warned = <<>>

EntityKeywords == { <<"e", "n", "t", "i", "t", "y">>, <<"m", "o", "d", "e", "l">>, <<"s", "c", "h", "e", "m", "a">>, <<"r", "e", "c", "o", "r", "d">> }

DtoKeywords == { <<"d", "t", "o">>, <<"r", "e", "q", "u", "e", "s", "t">>, <<"r", "e", "s", "p", "o", "n", "s", "e">>, <<"d", "a", "t", "a">> }

ValueObjectKeywords == { <<"v", "a", "l", "u", "e">>, <<"v", "o">> }

\* how many of the three flags of a data model are set
FlagsSet(m) ==
    Cardinality({ f \in {"is_entity", "is_dto", "is_value_object"} : m[f] })

\* the flags the precedence entity, DTO, value object gives a class name
FlagsByPrecedence(m) ==
    LET low == Lower(m.name)
    IN  /\ m.is_entity = AnyIn(EntityKeywords, low)
        /\ m.is_dto = (~AnyIn(EntityKeywords, low) /\ AnyIn(DtoKeywords, low))
        /\ m.is_value_object =
              (~AnyIn(EntityKeywords, low) /\ ~AnyIn(DtoKeywords, low)
                 /\ AnyIn(ValueObjectKeywords, low))

\* C20: every class record has at most one of is_entity, is_dto and
\* is_value_object set, the one of the first keyword group the lower-cased
\* name matches, in the order entity, DTO, value object.
C20_AtMostOneClassFlag ==
    \A i \in 1..Len(data_models) :
        data_models[i].type = "class" =>
            (FlagsSet(data_models[i]) <= 1 /\ FlagsByPrecedence(data_models[i]))

\* a class with an entity and a DTO keyword recorded as an entity only, next
\* to a class with a DTO and a value keyword recorded as a DTO only
C20_Witness ==
    /\ pc = "done"
    /\ \E i, j \in 1..Len(report.data_models) :
          /\ report.data_models[i].name = <<"M", "o", "d", "e", "l", "D", "a", "t", "a">>
          /\ report.data_models[i].is_entity
          /\ ~report.data_models[i].is_dto
          /\ report.data_models[j].name = <<"D", "a", "t", "a", "V", "a", "l", "u", "e">>
          /\ report.data_models[j].is_dto
          /\ ~report.data_models[j].is_value_object

(***************************************************************************)
(* Properties of the review, documentation and DDD tools.                  *)
(***************************************************************************)
\* how many issues a scan of the reviewer left, by severity
IssueCounts(issues) == [s \in DOMAIN issues |-> Len(issues[s])]

\* what a pass of the documentation analyzer left: its issues, its
\* recommendations, its analysed files and the number of files it ran over
PassResult(p) ==
    [issues |-> p.report.issues, recommendations |-> p.report.recommendations,
     analysed |-> Len(p.report.files_analyzed), files |-> p.files]

\* C16: a second scan of the same JavaCodeReviewer, and a second scan and
\* analysis of the same DocsAnalyzer, over unchanged files leaves the same
\* issues, recommendations and file counts as the first.
C16_SecondPassSameResult ==
    /\ \A k \in 2..Len(reviewer.scans) :
          /\ reviewer.scans[k].issues = reviewer.scans[k - 1].issues
          /\ reviewer.scans[k].stats = reviewer.scans[k - 1].stats
          /\ reviewer.scans[k].found = reviewer.scans[k - 1].found
    /\ \A k \in 2..Len(docs_analyzer.passes) :
          PassResult(docs_analyzer.passes[k]) = PassResult(docs_analyzer.passes[k - 1])

\* C17: check_all and analyze_and_suggest return normally whatever the bytes
\* of API.md and README.md are.
C17_NeverRaises ==
    /\ checker.pc # "raised"
    /\ improver.pc # "raised"

\* the list of the first test of the chain that holds for a class, "none"
\* when no test holds
FirstCategory(class) ==
    LET tests == DddTests(class)
        hits == { i \in 1..Len(tests) : tests[i].test }
    IN  IF hits = {} THEN "none"
        ELSE tests[CHOOSE i \in hits : \A j \in hits : i <= j].list

\* how often a class of a file is in a list of the report
TimesIn(list, name, file) ==
    Len(SelectSeq(list, LAMBDA e : e.name = name /\ e.file = file))

CalledBy(funcs, names) ==
    UNION { Range(funcs[i].calls) : i \in { j \in 1..Len(funcs) : funcs[j].name \in names } }

RECURSIVE CalledFrom(_, _)
\* the names reached from the given names by calls, in one step or more
CalledFrom(funcs, names) ==
    LET more == names \cup CalledBy(funcs, names)
    IN  IF more = names THEN CalledBy(funcs, names) ELSE CalledFrom(funcs, more)

\* C21: every step after the first of an execution path is a function that
\* the entry point of the path calls, directly or through other functions.
C21_StepsAreCallees ==
    pc = "done" =>
       \A k \in 1..Len(report.execution_paths) :
          LET p == report.execution_paths[k]
          IN  \A j \in 2..Len(p.steps) : p.steps[j] \in CalledFrom(functions, {p.name})

RECURSIVE LoopAfter(_, _, _)
\* the state of the while loop after n passes, or at its exit if that is earlier
LoopAfter(funcs, s, n) ==
    IF n = 0 \/ ~TraceRuns(s) THEN s ELSE LoopAfter(funcs, TraceStep(funcs, s), n - 1)

\* the entry points identify_execution_paths traces
TracedEntries(funcs) ==
    LET all == SelectSeq(funcs, LAMBDA f : f.is_entry_point)
    IN  SubSeq(all, 1, IF Len(all) < PathsLimit THEN Len(all) ELSE PathsLimit)

\* C22: the while loop of every traced entry point exits (after at most one
\* pass per name ever appended to to_visit); there are at most 5 paths, each
\* of at most 10 steps, the first being the name of the entry point, and no
\* name is a step twice.
C22_PathsBoundedAndLoopExits ==
    pc = "done" =>
       /\ Len(report.execution_paths) <= PathsLimit
       /\ Len(report.execution_paths) = Len(TracedEntries(functions))
       /\ \A k \in 1..Len(report.execution_paths) :
             LET p == report.execution_paths[k]
                 e == TracedEntries(functions)[k]
             IN  /\ ~TraceRuns(LoopAfter(functions, TraceStart(e),
                                         1 + StepsLimit * Len(functions)))
                 /\ p.name = e.name
                 /\ Len(p.steps) \in 1..StepsLimit
                 /\ p.steps[1] = e.name
                 /\ \A i, j \in 1..Len(p.steps) : p.steps[i] = p.steps[j] => i = j

\* main calls itself and is called by the first of a chain of fifty
\* functions: its path stops at ten steps, main being a step once
C22_Witness ==
    /\ pc = "done"
    /\ Len(functions) > StepsLimit
    /\ \E i \in 1..Len(functions) :
          functions[i].name = <<"m", "a", "i", "n">> /\ <<"m", "a", "i", "n">> \in Range(functions[i].calls)
    /\ Len(report.execution_paths) = 1
    /\ Len(report.execution_paths[1].steps) = StepsLimit
    /\ report.execution_paths[1].steps[1] = <<"m", "a", "i", "n">>
    /\ report.execution_paths[1].steps[StepsLimit] = ChainName(StepsLimit - 1)

\* C27: report.functions is the first 50 of the functions analysed,
\* report.entry_points is the entry points among them, and an entry point
\* after the first 50 is not in report.entry_points but, when it is one of
\* the first five entry points, has its execution path.
C27_ReportLimits ==
    pc = "done" =>
       LET n == IF Len(functions) < FunctionsLimit THEN Len(functions) ELSE FunctionsLimit
       IN  /\ Len(report.functions) <= FunctionsLimit
           /\ report.functions = SubSeq(functions, 1, n)
           /\ report.entry_points = SelectSeq(report.functions, LAMBDA f : f.is_entry_point)
           /\ \A i \in (FunctionsLimit + 1)..Len(functions) :
                 functions[i].is_entry_point =>
                    /\ functions[i] \notin Range(report.entry_points)
                    /\ functions[i] \in Range(TracedEntries(functions)) =>
                          \E k \in 1..Len(report.execution_paths) :
                             report.execution_paths[k].entry_point
                                = <<functions[i].file, functions[i].name>>

\* main is the fifty-first function: the report lists fifty functions and no
\* entry point, and holds the execution path of main
C27_Witness ==
    /\ pc = "done"
    /\ Len(functions) = FunctionsLimit + 1
    /\ functions[FunctionsLimit + 1].name = <<"m", "a", "i", "n">>
    /\ functions[FunctionsLimit + 1].is_entry_point
    /\ Len(report.functions) = FunctionsLimit
    /\ report.entry_points = <<>>
    /\ Len(report.execution_paths) = 1
    /\ report.execution_paths[1].entry_point = << <<"y", ".", "p", "y">>, <<"m", "a", "i", "n">> >>
(***************************************************************************)
(* The scores the tools report.                                            *)
(***************************************************************************)
InScoreRange(x) == 0 <= x /\ x <= 100

\* C23: the score of every report generate_report wrote is
\* 100 - 10 critical - 5 major - 2 minor clamped to 0..100, it is 100 exactly
\* when no issue was recorded, and the three shares are each in 0..100, sum
\* to at most 100, and are all 0 when there is no issue.
C23_ReviewScoreClamped ==
    \A k \in 1..Len(review_report) :
       LET w == review_report[k]
           raw == 100 - 10 * w.critical.count - 5 * w.major.count - 2 * w.minor.count
       IN  /\ w.total_issues = w.critical.count + w.major.count + w.minor.count
           /\ w.score = (IF raw < 0 THEN 0 ELSE IF raw > 100 THEN 100 ELSE raw)
           /\ (w.score = 100) <=> (w.total_issues = 0)
           /\ InScoreRange(w.critical.share)
           /\ InScoreRange(w.major.share)
           /\ InScoreRange(w.minor.share)
           /\ w.critical.share + w.major.share + w.minor.share <= 100
           /\ w.total_issues = 0 =>
                 w.critical.share = 0 /\ w.major.share = 0 /\ w.minor.share = 0

\* a report on eleven critical issues and more: the deductions exceed 100
\* and the score is 0, and the shares are rounded down to less than 100
C23_Witness ==
    \E k \in 1..Len(review_report) :
       LET w == review_report[k]
       IN  /\ w.critical.count >= 11
           /\ w.major.count > 0
           /\ w.minor.count > 0
           /\ w.score = 0
           /\ w.critical.share + w.major.share + w.minor.share < 100

\* C24: every score evaluate_solution returned is in 0..100.
C24_SolutionScoresInRange ==
    \A k \in 1..Len(architect) :
       LET s == architect[k].evaluation.scores
       IN  /\ InScoreRange(s.completeness)
           /\ InScoreRange(s.accuracy)
           /\ InScoreRange(s.feasibility)
           /\ InScoreRange(s.clarity)
           /\ InScoreRange(s.risk_management)
           /\ InScoreRange(s.cost_control)
           /\ InScoreRange(s.overall)

\* C28: the script run again at the same level on the document it wrote
\* writes the same document, and every document it writes holds the nine
\* section headers.
C28_OptimizeIdempotent ==
    /\ \A k \in 1..Len(architect) :
          \A i \in 1..Len(RequiredSections) :
             IsSubstring(RequiredSections[i].section, architect[k].optimized)
    /\ \A k \in 2..Len(architect) :
          /\ architect[k].content = architect[k - 1].optimized
          /\ architect[k].level = architect[k - 1].level
          /\ architect[k].optimized = architect[k - 1].optimized

ScoresInRange(s) ==
    /\ InScoreRange(s.overall)
    /\ InScoreRange(s.completeness)
    /\ InScoreRange(s.accuracy)
    /\ InScoreRange(s.clarity)
    /\ InScoreRange(s.structure)
    /\ InScoreRange(s.maintainability)

ReportInRange(r) ==
    /\ InScoreRange(r.overall_score)
    /\ InScoreRange(r.completeness_score)
    /\ InScoreRange(r.accuracy_score)
    /\ InScoreRange(r.clarity_score)
    /\ InScoreRange(r.structure_score)
    /\ InScoreRange(r.maintainability_score)

C26_RuleIdsSequential ==
    \A i \in 1..Len(business_rules) : business_rules[i].id = <<"rule", i>>

\* one `if` of a Python function gave a validation rule and a constraint
\* rule, and a Rust match gave a rule after them
C26_Witness ==
    \E i, j \in 1..Len(business_rules) :
       /\ i + 1 < j
       /\ business_rules[i].rule_type = "validation"
       /\ business_rules[i + 1].rule_type = "constraint"
       /\ business_rules[i + 1].location = business_rules[i].location
       /\ business_rules[j].location[2] = <<"m", "a", "t", "c", "h">>
       /\ business_rules[j].id = <<"rule", j>>

====
